---- MODULE Spec2Model ----
(***************************************************************************)
(* A model of the sql-type typing core: the unification primitive and the  *)
(* placeholder table (typer.rs), the function-call typer                   *)
(* (type_function.rs), the INSERT/REPLACE typer (type_insert_replace.rs)   *)
(* and the SELECT/UNION typer (type_select.rs).                            *)
(***************************************************************************)
EXTENDS Integers, Sequences, FiniteSets, TLC

VARIABLES
    issues,           \* Typer.issues: the diagnostics recorded so far
    reference_types,  \* Typer.reference_types: the reference-scope stack
    arg_types,        \* Typer.arg_types: <<ArgumentKey::Index(idx), FullType>> pairs
    invalid_base,     \* what Type::Invalid.base() yields (type_.rs)
    call,             \* the operation last called, with its inputs and the
                      \* Typer fields it was entered with
    ret,              \* what that call returned
    typings,          \* the expressions type_expression ran on during the call, in order
    panicked          \* whether that call reached a panic

vars == <<issues, reference_types, arg_types, invalid_base, call, ret, typings, panicked>>

(***************************************************************************)
(* Bounds of the model.                                                    *)
(***************************************************************************)
\* placeholder indexes are 0 .. MaxIdx-1
MaxIdx == 2

\* a function call has at most MaxArgs arguments
MaxArgs == 4

\* a select list has at most MaxSelectExprs expressions
MaxSelectExprs == 2

\* a UNION has at most MaxBranches branches after its left one
MaxBranches == 2

\* VALUES has at most MaxRows rows of at most MaxCells cells
MaxRows == 2

MaxCells == 2

ArgIdx == 0 .. (MaxIdx - 1)

(***************************************************************************)
(* Types (type_.rs).  A Type is a record [tag, base, args]; base is        *)
(* meaningful for the tags Base and Args, args for the tag Args.           *)
(***************************************************************************)
BaseTypes == {"Any", "Bool", "DateTime", "Date", "Float", "Integer", "String", "TimeStamp"}

ArgTypes == {"Normal", "ListHack"}

Base(b) == [tag |-> "Base", base |-> b, args |-> <<>>]

Args(b, a) == [tag |-> "Args", base |-> b, args |-> a]

Invalid == [tag |-> "Invalid", base |-> "None", args |-> <<>>]

Null == [tag |-> "Null", base |-> "None", args |-> <<>>]

U64 == [tag |-> "U64", base |-> "None", args |-> <<>>]

I64 == [tag |-> "I64", base |-> "None", args |-> <<>>]

F64 == [tag |-> "F64", base |-> "None", args |-> <<>>]

JSON == [tag |-> "JSON", base |-> "None", args |-> <<>>]

\* Type::base(): Invalid's base is left open between the wildcard and a marker
\* of its own
InvalidBases == {"Any", "Invalid"}

BaseOf(t) ==
    CASE t.tag \in {"Base", "Args"} -> t.base
      [] t.tag = "Invalid" -> invalid_base
      [] t.tag = "Null" -> "Any"
      [] t.tag \in {"U64", "I64"} -> "Integer"
      [] t.tag = "F64" -> "Float"
      [] t.tag = "JSON" -> "JSON"

ArgsOf(t) == IF t.tag = "Args" THEN t.args ELSE <<>>

\* FullType::new(t, not_null)
FullTypeNew(t, nn) == [t |-> t, not_null |-> nn, list_hack |-> FALSE]

\* FullType::invalid()
FullTypeInvalid == FullTypeNew(Invalid, FALSE)

\* one element of Type::Args' list: (idx, arg_type, span)
ArgRef(idx, k) == [idx |-> idx, arg_type |-> k]

(***************************************************************************)
(* Typer::constrain_arg (typer.rs 42-62) on the placeholder table at.      *)
(***************************************************************************)
\* position of the first entry keyed idx, 0 when there is none
FindArg(at, idx) ==
    IF \E i \in 1..Len(at) : at[i][1] = idx
    THEN CHOOSE i \in 1..Len(at) : at[i][1] = idx /\ \A j \in 1..(i-1) : at[j][1] # idx
    ELSE 0

\* the full type stored for idx; what a fresh entry holds when there is none
Stored(at, idx) ==
    IF FindArg(at, idx) = 0 THEN FullTypeNew(Base("Any"), FALSE)
    ELSE at[FindArg(at, idx)][2]

\* variant: the stored type is replaced whatever the bases are
constrain_arg_always(at, idx, arg_type, t) ==
    LET at1 == IF FindArg(at, idx) = 0
               THEN Append(at, <<idx, FullTypeNew(Base("Any"), FALSE)>>)
               ELSE at
        p == FindArg(at1, idx)
        ot2 == IF arg_type = "ListHack" THEN [t EXCEPT !.list_hack = TRUE] ELSE t
    IN [at1 EXCEPT ![p] = <<idx, ot2>>]

\* variant: the stored type is replaced only while it is still Any
constrain_arg_first(at, idx, arg_type, t) ==
    LET at1 == IF FindArg(at, idx) = 0
               THEN Append(at, <<idx, FullTypeNew(Base("Any"), FALSE)>>)
               ELSE at
        p == FindArg(at1, idx)
        ot == at1[p][2]
        ot1 == IF BaseOf(ot.t) = "Any" THEN t ELSE ot
        ot2 == IF arg_type = "ListHack" THEN [ot1 EXCEPT !.list_hack = TRUE] ELSE ot1
    IN [at1 EXCEPT ![p] = <<idx, ot2>>]

constrain_arg(at, idx, arg_type, t) ==
    LET at1 == IF FindArg(at, idx) = 0
               THEN Append(at, <<idx, FullTypeNew(Base("Any"), FALSE)>>)
               ELSE at
        p == FindArg(at1, idx)
        ot == at1[p][2]
        ot1 == IF BaseOf(t.t) # "Any" \/ BaseOf(ot.t) = "Any" THEN t ELSE ot
        ot2 == IF arg_type = "ListHack" THEN [ot1 EXCEPT !.list_hack = TRUE] ELSE ot1
    IN [at1 EXCEPT ![p] = <<idx, ot2>>]

\* constrain_arg for every element of an Args list, in order, with one type
RECURSIVE ConstrainAll(_, _, _)
ConstrainAll(at, a, t) ==
    IF a = <<>> THEN at
    ELSE ConstrainAll(constrain_arg(at, Head(a).idx, Head(a).arg_type, t), Tail(a), t)

(***************************************************************************)
(* Typer::matched_type (typer.rs 64-106): [ok, t, arg_types].              *)
(***************************************************************************)
NoMatch(at) == [ok |-> FALSE, t |-> Invalid, arg_types |-> at]

Match(t, at) == [ok |-> TRUE, t |-> t, arg_types |-> at]

\* variant: only the first operand's Any wildcard is resolved
matched_type_onesided(at, t1, t2) ==
    IF t1 = Invalid /\ t2 = Invalid THEN Match(t1, at)
    ELSE IF t1 = Null THEN Match(t2, at)
    ELSE IF t2 = Null THEN Match(t1, at)
    ELSE
      LET t1b == IF BaseOf(t1) = "Any" THEN BaseOf(t2) ELSE BaseOf(t1)
          t2b == BaseOf(t2)
          a == ArgsOf(t1) \o ArgsOf(t2)
          at2 == ConstrainAll(at, a, FullTypeNew(Base(t1b), FALSE))
      IN IF t1b # t2b THEN NoMatch(at)
         ELSE Match(IF t1b = "Any" /\ a # <<>> THEN Args(t1b, a) ELSE Base(t1b), at2)

\* variant: Null is no longer a wildcard for the second operand's full type
matched_type_nullbase(at, t1, t2) ==
    IF t1 = Invalid /\ t2 = Invalid THEN Match(t1, at)
    ELSE
      LET t1b == IF BaseOf(t1) = "Any" THEN BaseOf(t2) ELSE BaseOf(t1)
          t2b == IF BaseOf(t2) = "Any" THEN t1b ELSE BaseOf(t2)
          a == ArgsOf(t1) \o ArgsOf(t2)
          at2 == ConstrainAll(at, a, FullTypeNew(Base(t1b), FALSE))
      IN IF t1b # t2b THEN NoMatch(at)
         ELSE Match(IF t1b = "Any" /\ a # <<>> THEN Args(t1b, a) ELSE Base(t1b), at2)

\* variant: the Invalid/Invalid rule is tried after the Null rules and the
\* base comparison treats Invalid as matching nothing else
matched_type_strict(at, t1, t2) ==
    IF t1 = Invalid /\ t2 = Invalid THEN Match(t1, at)
    ELSE IF t1 = Invalid \/ t2 = Invalid THEN NoMatch(at)
    ELSE IF t1 = Null THEN Match(t2, at)
    ELSE IF t2 = Null THEN Match(t1, at)
    ELSE
      LET t1b == IF BaseOf(t1) = "Any" THEN BaseOf(t2) ELSE BaseOf(t1)
          t2b == IF BaseOf(t2) = "Any" THEN t1b ELSE BaseOf(t2)
          a == ArgsOf(t1) \o ArgsOf(t2)
          at2 == ConstrainAll(at, a, FullTypeNew(Base(t1b), FALSE))
      IN IF t1b # t2b THEN NoMatch(at)
         ELSE Match(IF t1b = "Any" /\ a # <<>> THEN Args(t1b, a) ELSE Base(t1b), at2)

matched_type(at, t1, t2) ==
    IF t1 = Invalid /\ t2 = Invalid THEN Match(t1, at)
    ELSE IF t1 = Null THEN Match(t2, at)
    ELSE IF t2 = Null THEN Match(t1, at)
    ELSE
      LET t1b == IF BaseOf(t1) = "Any" THEN BaseOf(t2) ELSE BaseOf(t1)
          t2b == IF BaseOf(t2) = "Any" THEN t1b ELSE BaseOf(t2)
          a == ArgsOf(t1) \o ArgsOf(t2)
          at2 == ConstrainAll(at, a, FullTypeNew(Base(t1b), FALSE))
      IN IF t1b # t2b THEN NoMatch(at)
         ELSE Match(IF t1b = "Any" /\ a # <<>> THEN Args(t1b, a) ELSE Base(t1b), at2)

(***************************************************************************)
(* Diagnostics (sql_parse::Issue) and the typing context as a value.       *)
(***************************************************************************)
\* Issue::err / Issue::warn / issue_todo! / issue_ice!
Issue(sev, msg, params, at) ==
    [sev |-> sev, msg |-> msg, params |-> params, at |-> at, frags |-> <<>>]

\* Issue::frag
Frag(issue, msg, params, at) ==
    [issue EXCEPT !.frags = Append(@, [msg |-> msg, params |-> params, at |-> at])]

\* locations: the call-site span, the span of the i-th expression
CallSpan == <<"span", 0>>

ExprSpan(i) == <<"expr", i>>

\* the Typer fields a call works on, with the observations typed (the
\* expressions handed to type_expression so far) and panicked
Typer(is, rt, at) ==
    [issues |-> is, reference_types |-> rt, arg_types |-> at,
     typed |-> <<>>, panicked |-> FALSE]

\* typer.issues.push(issue)
Push(st, issue) == [st EXCEPT !.issues = Append(@, issue)]

(***************************************************************************)
(* Typer::ensure_type and Typer::ensure_base (typer.rs 108-129).           *)
(***************************************************************************)
ensure_type(st, at, given, expected) ==
    LET Matched(r) ==
            IF r.ok THEN [st EXCEPT !.arg_types = r.arg_types]
            ELSE Push(st, Issue("err", "Expected type {} got {}", <<expected.t, given.t>>, at))
    IN Matched(matched_type(st.arg_types, given.t, expected.t))

ensure_base(st, at, given, expected) ==
    ensure_type(st, at, given, FullTypeNew(Base(expected), FALSE))

(***************************************************************************)
(* The expression typer (type_expression.rs) on the expressions of the     *)
(* model: a literal of a fixed full type, or the placeholder numbered idx.  *)
(***************************************************************************)
Lit(t, nn) == [kind |-> "lit", t |-> FullTypeNew(t, nn), idx |-> 0]

Placeholder(idx) == [kind |-> "arg", t |-> FullTypeNew(Base("Any"), FALSE), idx |-> idx]

TypeOfExpr(e) ==
    IF e.kind = "arg"
    THEN FullTypeNew(Args("Any", <<ArgRef(e.idx, "Normal")>>), FALSE)
    ELSE e.t

\* type_expression(typer, e, flags, expected) on the expression at span: [st, t]
type_expression(st, e, span) ==
    [st |-> [st EXCEPT !.typed = Append(@, span)], t |-> TypeOfExpr(e)]

\* how often type_expression ran on the expression at span
TimesTyped(log, span) == Cardinality({k \in 1..Len(log) : log[k] = span})

(***************************************************************************)
(* arg_cnt (type_function.rs 23-56): the arity check for the range         *)
(* start..end on n arguments.                                              *)
(***************************************************************************)
RECURSIVE SurplusFrags(_, _, _, _)
SurplusFrags(issue, end, cnt, n) ==
    IF end + cnt >= n THEN issue
    ELSE SurplusFrags(Frag(issue, "Argument {}", <<end + cnt>>, ExprSpan(end + cnt + 1)),
                      end, cnt + 1, n)

ArityIssue(start, end, n) ==
    IF start >= end
    THEN Issue("err", "Expected {} arguments got {}", <<start, n>>, CallSpan)
    ELSE Issue("err", "Expected between {} and {} arguments got {}",
               <<start, end, n>>, CallSpan)

\* variant: the range's end is taken as exclusive
arg_cnt_exclusive(st, start, end, n) ==
    IF n >= start /\ n < end THEN st
    ELSE Push(st, SurplusFrags(ArityIssue(start, end, n), end, 0, n))

arg_cnt(st, start, end, n) ==
    IF n >= start /\ n <= end THEN st
    ELSE Push(st, SurplusFrags(ArityIssue(start, end, n), end, 0, n))

(***************************************************************************)
(* typed_args (type_function.rs 58-73): [st, typed].                       *)
(***************************************************************************)
RECURSIVE TypedArgsFrom(_, _, _, _)
TypedArgsFrom(st, args, i, acc) ==
    IF i > Len(args) THEN [st |-> st, typed |-> acc]
    ELSE LET Typed(r) == TypedArgsFrom(r.st, args, i + 1, Append(acc, r.t))
         IN Typed(type_expression(st, args[i], ExprSpan(i)))

typed_args(st, args) == TypedArgsFrom(st, args, 1, <<>>)

(***************************************************************************)
(* type_function (type_function.rs 75-337).                                *)
(***************************************************************************)
\* the signatures handed to the closure tf: [ret, req, opt]
DeclarativeFuncs ==
    {"Rand", "Right", "Left", "SubStr", "FindInSet", "SubStringIndex", "ExtractValue",
     "Replace", "CharacterLength", "Now", "CurDate", "CurrentTimestamp", "DateFormat"}

Sig(func) ==
    CASE func = "Rand" -> [ret |-> F64, req |-> <<>>, opt |-> <<"Integer">>]
      [] func \in {"Right", "Left"} ->
            [ret |-> Base("String"), req |-> <<"String", "Integer">>, opt |-> <<>>]
      [] func = "SubStr" ->
            [ret |-> Base("String"), req |-> <<"String", "Integer">>, opt |-> <<"Integer">>]
      [] func = "FindInSet" ->
            [ret |-> Base("Integer"), req |-> <<"String", "String">>, opt |-> <<>>]
      [] func = "SubStringIndex" ->
            [ret |-> Base("String"), req |-> <<"String", "String", "Integer">>, opt |-> <<>>]
      [] func = "ExtractValue" ->
            [ret |-> Base("String"), req |-> <<"String", "String">>, opt |-> <<>>]
      [] func = "Replace" ->
            [ret |-> Base("String"), req |-> <<"String", "String", "String">>, opt |-> <<>>]
      [] func = "CharacterLength" ->
            [ret |-> Base("Integer"), req |-> <<"String">>, opt |-> <<>>]
      [] func = "Now" -> [ret |-> Base("DateTime"), req |-> <<>>, opt |-> <<"Integer">>]
      [] func = "CurDate" -> [ret |-> Base("Date"), req |-> <<>>, opt |-> <<>>]
      [] func = "CurrentTimestamp" ->
            [ret |-> Base("TimeStamp"), req |-> <<>>, opt |-> <<"Integer">>]
      [] func = "DateFormat" ->
            [ret |-> Base("String"), req |-> <<"DateTime", "String">>, opt |-> <<"String">>]

\* the three argument loops of tf: the arguments that meet a declared type are
\* typed and checked against it, the rest are typed against Any
RECURSIVE TfArgs(_, _, _, _, _)
TfArgs(st, args, ets, i, nn) ==
    IF i > Len(args) THEN [st |-> st, not_null |-> nn]
    ELSE LET Typed(r) ==
                 IF i <= Len(ets)
                 THEN TfArgs(ensure_base(r.st, ExprSpan(i), r.t, ets[i]), args, ets, i + 1,
                             nn /\ r.t.not_null)
                 ELSE TfArgs(r.st, args, ets, i + 1, nn)
         IN Typed(type_expression(st, args[i], ExprSpan(i)))

\* the closure tf (type_function.rs 82-112): [st, t]
tf(st, args, return_type, required_args, optional_args) ==
    LET Checked(r) == [st |-> r.st, t |-> FullTypeNew(return_type, r.not_null)]
    IN Checked(TfArgs(arg_cnt(st, Len(required_args),
                              Len(required_args) + Len(optional_args), Len(args)),
                      args, required_args \o optional_args, 1, TRUE))

\* ensure_base on the typed arguments at the positions in sel, in order
RECURSIVE EnsureBaseSel(_, _, _, _, _)
EnsureBaseSel(st, typed, i, sel, base) ==
    IF i > Len(typed) THEN st
    ELSE EnsureBaseSel(IF i \in sel THEN ensure_base(st, ExprSpan(i), typed[i], base) ELSE st,
                       typed, i + 1, sel, base)

\* the conjunction of the not_null flags of the typed arguments from position i
RECURSIVE AllNotNull(_, _)
AllNotNull(typed, i) ==
    IF i > Len(typed) THEN TRUE ELSE typed[i].not_null /\ AllNotNull(typed, i + 1)

\* variant: a mismatch cites only the argument that did not fit
RECURSIVE LeastFold_one_fragment(_, _, _, _)
LeastFold_one_fragment(st, typed, i, t) ==
    IF i > Len(typed) THEN [st |-> st, t |-> t]
    ELSE IF typed[i].t = t THEN LeastFold_one_fragment(st, typed, i + 1, t)
    ELSE LET Matched(r) ==
                 IF r.ok
                 THEN LeastFold_one_fragment([st EXCEPT !.arg_types = r.arg_types], typed,
                                             i + 1, r.t)
                 ELSE LeastFold_one_fragment(
                        Push(st, Frag(Issue("err", "None matching input types", <<>>,
                                            CallSpan),
                                      "Type {}", <<typed[i].t>>, ExprSpan(i))),
                        typed, i + 1, t)
         IN Matched(matched_type(st.arg_types, typed[i].t, t))

\* the fold of LEAST/GREATEST over the arguments after the first
RECURSIVE LeastFold(_, _, _, _)
LeastFold(st, typed, i, t) ==
    IF i > Len(typed) THEN [st |-> st, t |-> t]
    ELSE IF typed[i].t = t THEN LeastFold(st, typed, i + 1, t)
    ELSE LET Matched(r) ==
                 IF r.ok
                 THEN LeastFold([st EXCEPT !.arg_types = r.arg_types], typed, i + 1, r.t)
                 ELSE LeastFold(
                        Push(st, Frag(Frag(Issue("err", "None matching input types", <<>>,
                                                 CallSpan),
                                           "Type {}", <<typed[1].t>>, ExprSpan(1)),
                                      "Type {}", <<typed[i].t>>, ExprSpan(i))),
                        typed, i + 1, t)
         IN Matched(matched_type(st.arg_types, typed[i].t, t))

\* the arms of the match that do not go through tf
CustomFuncs ==
    {"UnixTimestamp", "IfNull", "JsonExtract", "JsonValue", "JsonReplace", "JsonSet",
     "JsonUnquote", "Min", "Max", "Sum", "Concat", "Least", "Greatest", "If",
     "FromUnixTime", "Value"}

\* a function tag the match has no arm for
OtherFuncs == {"Other"}

Funcs == DeclarativeFuncs \cup CustomFuncs \cup OtherFuncs

\* the odd positions and position 0 of JSON_SET / JSON_REPLACE (1-based here)
JsonPathPositions(n) == {i \in 1..n : i - 1 = 0 \/ (i - 1) % 2 = 1}

\* the arms after their call of typed_args, which left st and typed
\* variant: the aggregate keeps its argument's nullability
Aggregate_keeps_not_null(typed, n) ==
    IF n >= 1 THEN typed[1] ELSE FullTypeInvalid

\* the Min | Max | Sum arm's result (type_function.rs 223-230): the first
\* argument's full type with not_null cleared, or FullType::invalid()
Aggregate(typed, n) ==
    IF n >= 1 THEN [typed[1] EXCEPT !.not_null = FALSE] ELSE FullTypeInvalid

CustomArm(st, typed, n, func, in_on_duplicate_key_update) ==
    CASE func = "UnixTimestamp" ->
            LET Counted(st1) ==
                    IF n >= 1
                    THEN [st |-> ensure_base(st1, ExprSpan(1), typed[1], "DateTime"),
                          t |-> FullTypeNew(I64, typed[1].not_null)]
                    ELSE [st |-> st1, t |-> FullTypeNew(I64, TRUE)]
            IN Counted(arg_cnt(st, 0, 1, n))
      [] func = "IfNull" ->
            LET t == IF n >= 1 THEN typed[1] ELSE FullTypeInvalid
                Warned(st2) ==
                    IF n >= 2
                    THEN [st |-> ensure_type(st2, ExprSpan(2), typed[2], t), t |-> typed[2]]
                    ELSE [st |-> st2, t |-> t]
                Counted(st1) ==
                    Warned(IF n >= 1 /\ typed[1].not_null
                           THEN Push(st1, Issue("warn", "Cannot be null", <<>>, ExprSpan(1)))
                           ELSE st1)
            IN Counted(arg_cnt(st, 2, 2, n))
      [] func = "JsonExtract" ->
            [st |-> EnsureBaseSel(arg_cnt(st, 2, 999, n), typed, 1, 1..n, "String"),
             t |-> FullTypeNew(JSON, FALSE)]
      [] func = "JsonValue" ->
            [st |-> EnsureBaseSel(arg_cnt(st, 2, 2, n), typed, 1, 1..n, "String"),
             t |-> FullTypeNew(JSON, FALSE)]
      [] func \in {"JsonReplace", "JsonSet"} ->
            [st |-> EnsureBaseSel(arg_cnt(st, 3, 999, n), typed, 1,
                                  JsonPathPositions(n), "String"),
             t |-> FullTypeNew(JSON, FALSE)]
      [] func = "JsonUnquote" ->
            [st |-> EnsureBaseSel(arg_cnt(st, 1, 1, n), typed, 1, 1..n, "String"),
             t |-> FullTypeNew(Base("String"), FALSE)]
      [] func \in {"Min", "Max", "Sum"} ->
            [st |-> arg_cnt(st, 1, 1, n), t |-> Aggregate(typed, n)]
      [] func = "Concat" ->
            [st |-> st, t |-> FullTypeNew(Base("String"), AllNotNull(typed, 1))]
      [] func \in {"Least", "Greatest"} ->
            LET Counted(st1) ==
                    [st |-> IF n >= 1 THEN LeastFold(st1, typed, 2, typed[1].t).st ELSE st1,
                     t |-> FullTypeNew(Base("Any"), TRUE)]
            IN Counted(arg_cnt(st, 1, 9999, n))
      [] func = "If" ->
            LET not_null == AllNotNull(SubSeq(typed, 1, IF n < 3 THEN n ELSE 3), 1)
                Matched(st2, r) ==
                    IF r.ok
                    THEN [st |-> [st2 EXCEPT !.arg_types = r.arg_types],
                          t |-> FullTypeNew(r.t, not_null)]
                    ELSE [st |-> Push(st2,
                                   Frag(Frag(Issue("err", "Incompatible types", <<>>, CallSpan),
                                             "Of type {}", <<typed[2].t>>, ExprSpan(2)),
                                        "Of type {}", <<typed[3].t>>, ExprSpan(3))),
                          t |-> FullTypeInvalid]
                Ensured(st2) ==
                    IF n >= 3
                    THEN Matched(st2, matched_type(st2.arg_types, typed[2].t, typed[3].t))
                    ELSE [st |-> st2, t |-> FullTypeInvalid]
                Counted(st1) ==
                    Ensured(IF n >= 1 THEN ensure_base(st1, ExprSpan(1), typed[1], "Bool")
                            ELSE st1)
            IN Counted(arg_cnt(st, 3, 3, n))
      [] func = "FromUnixTime" ->
            LET Ensured(st2) ==
                    IF n >= 2
                    THEN [st |-> ensure_base(st2, ExprSpan(2), typed[2], "String"),
                          t |-> FullTypeNew(Base("String"),
                                            typed[1].not_null /\ typed[2].not_null)]
                    ELSE [st |-> st2,
                          t |-> FullTypeNew(Base("DateTime"), n < 1 \/ typed[1].not_null)]
                Counted(st1) ==
                    Ensured(IF n >= 1 THEN ensure_base(st1, ExprSpan(1), typed[1], "Float")
                            ELSE st1)
            IN Counted(arg_cnt(st, 1, 2, n))
      [] func = "Value" ->
            [st |-> arg_cnt(IF ~in_on_duplicate_key_update
                            THEN Push(st, Issue("err",
                                        "VALUE is only allowed within ON DUPLICATE KEY UPDATE",
                                        <<>>, CallSpan))
                            ELSE st,
                            1, 1, n),
             t |-> IF n >= 1 THEN typed[1] ELSE FullTypeInvalid]

TypeCustom(st0, func, args, in_on_duplicate_key_update) ==
    LET Typed(ta) == CustomArm(ta.st, ta.typed, Len(args), func, in_on_duplicate_key_update)
    IN Typed(typed_args(st0, args))

\* the arm `_` of the match: the tag has no typing rule
TypeOther(st) ==
    [st |-> Push(st, Issue("err", "Typing for function not implemented", <<>>, CallSpan)),
     t |-> FullTypeInvalid]

type_function(st, func, args, in_on_duplicate_key_update) ==
    IF func \in DeclarativeFuncs
    THEN tf(st, args, Sig(func).ret, Sig(func).req, Sig(func).opt)
    ELSE IF func \in CustomFuncs
    THEN TypeCustom(st, func, args, in_on_duplicate_key_update)
    ELSE TypeOther(st)

(***************************************************************************)
(* Reference scopes and the select list (type_select.rs).  An Option is a  *)
(* sequence of length 0 or 1.                                              *)
(***************************************************************************)
None == <<>>

Some(x) == <<x>>

\* ReferenceType { name, span, columns } (typer.rs 22-27)
ReferenceType(name, span, columns) == [name |-> name, span |-> span, columns |-> columns]

\* variant: the innermost scope's columns come first
RECURSIVE ScopeColumns_innermost_first(_, _)
ScopeColumns_innermost_first(rt, k) ==
    IF k > Len(rt) THEN <<>>
    ELSE ScopeColumns_innermost_first(rt, k + 1)
         \o [c \in 1..Len(rt[k].columns) |->
                [scope |-> k, name |-> rt[k].columns[c][1], type_ |-> rt[k].columns[c][2]]]

\* the columns of every scope of the stack, in scope order then column order:
\* [scope, name, type_]
RECURSIVE ScopeColumns(_, _)
ScopeColumns(rt, k) ==
    IF k > Len(rt) THEN <<>>
    ELSE [c \in 1..Len(rt[k].columns) |->
            [scope |-> k, name |-> rt[k].columns[c][1], type_ |-> rt[k].columns[c][2]]]
         \o ScopeColumns(rt, k + 1)

\* the columns named col, over every scope or over the scopes named tbl
MatchesOf(rt, col) == SelectSeq(ScopeColumns(rt, 1), LAMBDA c : c.name = col)

MatchesIn(rt, tbl, col) ==
    SelectSeq(ScopeColumns(rt, 1), LAMBDA c : c.name = col /\ rt[c.scope].name = Some(tbl))

\* one "Defined here" fragment for each matching column
RECURSIVE DefinedHere(_, _, _, _)
DefinedHere(issue, rt, ms, k) ==
    IF k > Len(ms) THEN issue
    ELSE DefinedHere(Frag(issue, "Defined here", <<>>, rt[ms[k].scope].span), rt, ms, k + 1)

\* what resolve_kleene_identifier hands to its callback
Emit(name, type_, span, as_) == [name |-> name, type_ |-> type_, span |-> span, as_ |-> as_]

\* the last scope named tbl, 0 when there is none
LastScopeNamed(rt, tbl) ==
    IF \E k \in 1..Len(rt) : rt[k].name = Some(tbl)
    THEN CHOOSE k \in 1..Len(rt) :
            rt[k].name = Some(tbl) /\ \A m \in (k+1)..Len(rt) : rt[m].name # Some(tbl)
    ELSE 0

\* identifier parts
Name(v) == [kind |-> "Name", value |-> v]

Star == [kind |-> "Star", value |-> "*"]

\* resolve_kleene_identifier (type_select.rs 50-156) for the k-th select
\* expression: [st, out], out the callback's invocations in order
resolve_kleene_identifier(st, parts, as_, k) ==
    LET rt == st.reference_types
        name == IF as_ # None THEN as_[1] ELSE parts[Len(parts)].value
        name_span == IF as_ # None THEN <<"as", k>> ELSE <<"col", k>>
        invalid == <<Emit(Some(name), FullTypeInvalid, name_span, as_ # None)>>
        st_as == IF as_ # None
                 THEN Push(st, Issue("err", "As not supported for *", <<>>, <<"as", k>>))
                 ELSE st
    IN
    IF Len(parts) = 1 /\ parts[1].kind = "Name" THEN
        LET ms == MatchesOf(rt, parts[1].value) IN
        IF Len(ms) > 1
        THEN [st |-> Push(st, DefinedHere(Issue("err", "Ambigious reference", <<>>,
                                                <<"col", k>>), rt, ms, 1)),
              out |-> invalid]
        ELSE IF Len(ms) = 1
        THEN [st |-> st, out |-> <<Emit(Some(name), ms[1].type_, name_span, as_ # None)>>]
        ELSE [st |-> Push(st, Issue("err", "Unknown identifier", <<>>, <<"col", k>>)),
              out |-> invalid]
    ELSE IF Len(parts) = 1 /\ parts[1].kind = "Star" THEN
        [st |-> st_as,
         out |-> [c \in 1..Len(ScopeColumns(rt, 1)) |->
                    Emit(Some(ScopeColumns(rt, 1)[c].name), ScopeColumns(rt, 1)[c].type_,
                         <<"star", k>>, FALSE)]]
    ELSE IF Len(parts) = 2 /\ parts[1].kind = "Name" /\ parts[2].kind = "Name" THEN
        LET ms == MatchesIn(rt, parts[1].value, parts[2].value) IN
        IF Len(ms) > 0
        THEN [st |-> st,
              out |-> <<Emit(Some(name), ms[Len(ms)].type_, name_span, as_ # None)>>]
        ELSE [st |-> Push(st, Issue("err", "Unknown identifier", <<>>, <<"col", k>>)),
              out |-> invalid]
    ELSE IF Len(parts) = 2 /\ parts[1].kind = "Name" /\ parts[2].kind = "Star" THEN
        LET t == LastScopeNamed(rt, parts[1].value) IN
        IF t # 0
        THEN [st |-> st_as,
              out |-> [c \in 1..Len(rt[t].columns) |->
                         Emit(Some(rt[t].columns[c][1]), rt[t].columns[c][2],
                              <<"star", k>>, FALSE)]]
        ELSE [st |-> Push(st_as, Issue("err", "Unknown table", <<>>, <<"tbl", k>>)),
              out |-> <<>>]
    ELSE IF Len(parts) = 2 /\ parts[1].kind = "Star" THEN
        [st |-> Push(st, Issue("err", "Not supported here", <<>>, <<"star", k>>)),
         out |-> <<>>]
    ELSE IF Len(parts) = 0 THEN
        \* parts.opt_span().unwrap() on an empty list
        [st |-> [st EXCEPT !.panicked = TRUE], out |-> <<>>]
    ELSE [st |-> Push(st, Issue("err", "Invalid identifier", <<>>, <<"col", k>>)),
          out |-> <<>>]

\* the closure add_result (type_select.rs 201-219) on the accumulators
\* acc = [result, columns, issues]
RECURSIVE DuplicateWarnings(_, _, _, _, _)
DuplicateWarnings(iss, result, name, span, m) ==
    IF m > Len(result) THEN iss
    ELSE DuplicateWarnings(
            IF result[m].name = Some(name)
            THEN Append(iss, Frag(Issue("warn", "Multiple columns with the name '{}'",
                                        <<name>>, span),
                                  "Also defined here", <<>>, result[m].span))
            ELSE iss,
            result, name, span, m + 1)

add_result(acc, e, warn_duplicate) ==
    LET cols == IF e.name # None /\ e.as_ THEN Append(acc.columns, <<e.name[1], e.type_>>)
                ELSE acc.columns
        iss == IF e.name # None /\ warn_duplicate
               THEN DuplicateWarnings(acc.issues, acc.result, e.name[1], e.span, 1)
               ELSE acc.issues
    IN [result |-> Append(acc.result, [name |-> e.name, type_ |-> e.type_, span |-> e.span]),
        columns |-> cols, issues |-> iss]

RECURSIVE AddResults(_, _, _, _)
AddResults(acc, out, m, warn_duplicate) ==
    IF m > Len(out) THEN acc
    ELSE AddResults(add_result(acc, out[m], warn_duplicate), out, m + 1, warn_duplicate)

\* select expressions: an identifier, or another expression
Ident(parts, as_) == [kind |-> "ident", parts |-> parts, as_ |-> as_]

Other(expr, as_) == [kind |-> "expr", expr |-> expr, as_ |-> as_]

\* the loop over the select expressions (type_select.rs 200-233): [st, acc]
RECURSIVE SelectExprsFrom(_, _, _, _, _)
SelectExprsFrom(st, exprs, k, acc, warn_duplicate) ==
    IF k > Len(exprs) \/ st.panicked THEN [st |-> st, acc |-> acc]
    ELSE IF exprs[k].kind = "ident" THEN
        LET Resolved(r) ==
                SelectExprsFrom(r.st, exprs, k + 1, AddResults(acc, r.out, 1, warn_duplicate),
                                warn_duplicate)
        IN Resolved(resolve_kleene_identifier(st, exprs[k].parts, exprs[k].as_, k))
    ELSE
        LET Typed(r) ==
                IF exprs[k].as_ # None
                THEN SelectExprsFrom(r.st, exprs, k + 1,
                         add_result(acc, Emit(exprs[k].as_, r.t, <<"as", k>>, TRUE),
                                    warn_duplicate),
                         warn_duplicate)
                ELSE SelectExprsFrom(
                         Push(r.st, Issue("warn", "Unnamed column in select", <<>>,
                                          <<"select_expr", k>>)),
                         exprs, k + 1,
                         add_result(acc, Emit(None, r.t, <<"none", 0>>, FALSE), warn_duplicate),
                         warn_duplicate)
        IN Typed(type_expression(st, exprs[k].expr, <<"select_expr", k>>))

\* the select list as a whole (type_select.rs 191-235): the loop, the deferred
\* duplicate warnings, and the synthetic scope of the aliased columns pushed
\* last: [st, result]
type_select_exprs(st, exprs, warn_duplicate) ==
    IF Len(exprs) = 0
    THEN \* select_exprs.opt_span().unwrap() on an empty list
         [st |-> [st EXCEPT !.panicked = TRUE], result |-> <<>>]
    ELSE
    LET Listed(r) ==
            IF r.st.panicked THEN [st |-> r.st, result |-> <<>>]
            ELSE [st |-> [r.st EXCEPT
                             !.issues = @ \o r.acc.issues,
                             !.reference_types =
                                 Append(@, ReferenceType(None, <<"select_exprs", 0>>,
                                                         r.acc.columns))],
                  result |-> r.acc.result]
    IN Listed(SelectExprsFrom(st, exprs, 1,
                              [result |-> <<>>, columns |-> <<>>, issues |-> <<>>],
                              warn_duplicate))

(***************************************************************************)
(* type_select (type_select.rs 158-282).                                   *)
(***************************************************************************)
\* Typer::common_type: the unification core on full types: [ok, t, st]
common_type(st, t1, t2) ==
    LET Matched(r) ==
            [ok |-> r.ok, t |-> FullTypeNew(r.t, t1.not_null /\ t2.not_null),
             st |-> [st EXCEPT !.arg_types = r.arg_types]]
    IN Matched(matched_type(st.arg_types, t1.t, t2.t))

\* type_reference: a table reference pushes the scope it introduces
type_reference(st, reference) ==
    [st EXCEPT !.reference_types = Append(@, reference)]

RECURSIVE TypeReferences(_, _, _)
TypeReferences(st, refs, k) ==
    IF k > Len(refs) THEN st
    ELSE TypeReferences(type_reference(st, refs[k]), refs, k + 1)

\* the select flags that raise "not yet implemented"
TodoFlags == {"All", "Distinct", "DistinctRow", "StraightJoin"}

RECURSIVE SelectFlags(_, _, _)
SelectFlags(st, flags, k) ==
    IF k > Len(flags) THEN st
    ELSE SelectFlags(IF flags[k] \in TodoFlags
                     THEN Push(st, Issue("todo", "Not yet implemented", <<>>, <<"flag", k>>))
                     ELSE st,
                     flags, k + 1)

\* type_expression on each expression of a list, the results unused
RECURSIVE TypeEach(_, _, _, _)
TypeEach(st, exprs, what, k) ==
    IF k > Len(exprs) THEN st
    ELSE TypeEach(type_expression(st, exprs[k], <<what, k>>).st, exprs, what, k + 1)

\* one LIMIT operand: it must unify with a not-null U64
LimitOperand(st, e, what) ==
    LET Unified(t, c) ==
            IF c.ok THEN c.st
            ELSE Push(c.st, Issue("err", "Expected integer type got {}", <<t.t>>, <<what, 0>>))
        Typed(r) == Unified(r.t, common_type(r.st, r.t, FullTypeNew(U64, TRUE)))
    IN Typed(type_expression(st, e, <<what, 0>>))

\* LIMIT [offset,] count (type_select.rs 249-272 and 393-416)
TypeLimit(st, limit) ==
    IF limit = None THEN st
    ELSE LimitOperand(IF limit[1].offset # None
                      THEN LimitOperand(st, limit[1].offset[1], "offset")
                      ELSE st,
                      limit[1].count, "count")

\* the WHERE clause must type as Bool (type_select.rs 186-189)
TypeWhere(st, where_) ==
    IF where_ = None THEN st
    ELSE LET Typed(r) == ensure_base(r.st, <<"where", 0>>, r.t, "Bool")
         IN Typed(type_expression(st, where_[1], <<"where", 0>>))

\* what comes before the select list (type_select.rs 165-189)
SelectHead(st, select) ==
    TypeWhere(TypeReferences(SelectFlags(st, select.flags, 1), select.table_references, 1),
              select.where_)

\* what comes after the select list (type_select.rs 237-272)
SelectTail(st, select) ==
    TypeLimit(TypeEach(TypeEach(st, select.group_by, "group_by", 1),
                       select.order_by, "order_by", 1),
              select.limit)

\* variant: the scope stack is not put back at the end
type_select_leaky(st0, select, warn_duplicate) ==
    LET Listed(sl) ==
            IF sl.st.panicked THEN [st |-> sl.st, columns |-> <<>>]
            ELSE [st |-> SelectTail(sl.st, select), columns |-> sl.result]
    IN Listed(type_select_exprs(SelectHead(st0, select), select.select_exprs,
                                warn_duplicate))

type_select(st0, select, warn_duplicate) ==
    LET old_reference_type == st0.reference_types
        Listed(sl) ==
            IF sl.st.panicked THEN [st |-> sl.st, columns |-> <<>>]
            ELSE [st |-> [SelectTail(sl.st, select) EXCEPT
                             !.reference_types = old_reference_type],
                  columns |-> sl.result]
    IN Listed(type_select_exprs(SelectHead(st0, select), select.select_exprs,
                                warn_duplicate))

(***************************************************************************)
(* type_union and type_union_select (type_select.rs 284-437).              *)
(***************************************************************************)
\* statements: a SELECT, a UNION, or a statement of another kind
SelectStmt(select) == [kind |-> "Select", select |-> select]

UnionStmt(union) == [kind |-> "Union", union |-> union]

OtherStmt == [kind |-> "Other"]

\* variant: the accumulated column keeps its type when the types unify
UnionTypes_keeps_left(c, t, t2, i) ==
    IF c.ok
    THEN [st |-> c.st, columns |-> t]
    ELSE [st |-> Push(c.st,
                   Frag(Frag(Issue("err", "Incompatible types in union", <<>>, <<"union", 0>>),
                             "Column {} is of type {}", <<i - 1, t[i].type_.t>>,
                             <<"left", 0>>),
                        "Column {} is of type {}", <<i - 1, t2[i].type_.t>>, <<"right", 0>>)),
          columns |-> t]

\* what the outcome c of common_type on column i of both sides leads to
\* (type_select.rs 324-335): the unified type replaces the accumulated
\* column's type, or one issue is pushed: [st, columns]
UnionTypes(c, t, t2, i) ==
    IF c.ok
    THEN [st |-> c.st, columns |-> [t EXCEPT ![i].type_ = c.t]]
    ELSE [st |-> Push(c.st,
                   Frag(Frag(Issue("err", "Incompatible types in union", <<>>, <<"union", 0>>),
                             "Column {} is of type {}", <<i - 1, t[i].type_.t>>,
                             <<"left", 0>>),
                        "Column {} is of type {}", <<i - 1, t2[i].type_.t>>, <<"right", 0>>)),
          columns |-> t]

\* variant: the issue leaves the column's name out
OnlyOnThisSide_unnamed(col, i, side) ==
    Frag(Issue("err", "Incompatible types in union", <<>>, <<"union", 0>>),
         "Column {} only on this side", <<i - 1>>, side)

\* the issue for column i when only one side has it (type_select.rs 336-365):
\* its fragment is at that side and carries the column's name when it has one
OnlyOnThisSide(col, i, side) ==
    Frag(Issue("err", "Incompatible types in union", <<>>, <<"union", 0>>),
         IF col.name # None THEN "Column {} ({}) only on this side"
         ELSE "Column {} only on this side",
         IF col.name # None THEN <<i - 1, col.name[1]>> ELSE <<i - 1>>,
         side)

\* the comparison of column i of the accumulated left side t with column i
\* of the branch t2 (type_select.rs 291-366, i counted from 1): [st, columns]
UnionColumn(st, t, t2, i) ==
    IF i <= Len(t) THEN
        IF i <= Len(t2) THEN
            LET l == t[i]
                r == t2[i]
                names == Issue("err", "Incompatible names in union", <<>>, <<"union", 0>>)
                Named(st1) ==
                    IF st1.panicked THEN [st |-> st1, columns |-> t]
                    ELSE UnionTypes(common_type(st1, l.type_, r.type_), t, t2, i)
            IN Named(
                IF l.name # r.name
                THEN IF l.name # None
                     THEN IF r.name # None
                          THEN Push(st, Frag(Frag(names, "Column {} is named {}",
                                                  <<i - 1, l.name[1]>>, <<"left", 0>>),
                                             "Column {} is named {}",
                                             <<i - 1, r.name[1]>>, <<"right", 0>>))
                          ELSE Push(st, Frag(Frag(names, "Column {} is named {}",
                                                  <<i - 1, l.name[1]>>, <<"left", 0>>),
                                             "Column {} has no name",
                                             <<i - 1>>, <<"right", 0>>))
                     ELSE IF r.name # None
                          THEN Push(st, Frag(Frag(names, "Column {} has no name",
                                                  <<i - 1>>, <<"left", 0>>),
                                             "Column {} is named {}",
                                             <<i - 1, r.name[1]>>, <<"right", 0>>))
                          ELSE \* r.name.unwrap() on None
                               [st EXCEPT !.panicked = TRUE]
                ELSE st)
        ELSE
            [st |-> Push(st, OnlyOnThisSide(t[i], i, <<"left", 0>>)), columns |-> t]
    ELSE IF i <= Len(t2) THEN
        [st |-> Push(st, OnlyOnThisSide(t2[i], i, <<"right", 0>>)), columns |-> t]
    ELSE \* t2.columns[i] past the end
         [st |-> [st EXCEPT !.panicked = TRUE], columns |-> t]

Max(a, b) == IF a >= b THEN a ELSE b

RECURSIVE UnionColumns(_, _, _, _)
UnionColumns(st, t, t2, i) ==
    IF i > Max(Len(t), Len(t2)) \/ st.panicked THEN [st |-> st, columns |-> t]
    ELSE LET Compared(r) == UnionColumns(r.st, r.columns, t2, i + 1)
         IN Compared(UnionColumn(st, t, t2, i))

\* the named columns of an output column list, as scope columns
RECURSIVE NamedColumns(_, _)
NamedColumns(cols, k) ==
    IF k > Len(cols) THEN <<>>
    ELSE (IF cols[k].name # None THEN <<<<cols[k].name[1], cols[k].type_>>>> ELSE <<>>)
         \o NamedColumns(cols, k + 1)

RECURSIVE type_union(_, _)
RECURSIVE type_union_select(_, _)
RECURSIVE UnionBranches(_, _, _, _)

\* the loop over union.with (type_select.rs 287-369): [st, columns]
UnionBranches(st, t, with, k) ==
    IF k > Len(with) \/ st.panicked THEN [st |-> st, columns |-> t]
    ELSE LET Compared(r) == UnionBranches(r.st, r.columns, with, k + 1)
             Typed(t2) ==
                 IF t2.st.panicked THEN [st |-> t2.st, columns |-> t]
                 ELSE Compared(UnionColumns(t2.st, t, t2.columns, 1))
         IN Typed(type_union_select(st, with[k]))

\* the synthetic scope of the union's named columns is pushed, then ORDER BY
\* and LIMIT are typed (type_select.rs 371-416)
UnionTail(st, columns, union) ==
    TypeLimit(TypeEach([st EXCEPT !.reference_types =
                           Append(@, ReferenceType(None, <<"columns", 0>>,
                                                   NamedColumns(columns, 1)))],
                       union.order_by, "order_by", 1),
              union.limit)

type_union(st0, union) ==
    LET Popped(st) == [st EXCEPT !.reference_types = SubSeq(@, 1, Len(@) - 1)]
        Merged(b) ==
            IF b.st.panicked THEN [st |-> b.st, columns |-> <<>>]
            ELSE IF Len(b.columns) = 0
            THEN \* t.columns.opt_span().unwrap() on an empty column list
                 [st |-> [b.st EXCEPT !.panicked = TRUE], columns |-> <<>>]
            ELSE [st |-> Popped(UnionTail(b.st, b.columns, union)), columns |-> b.columns]
        Typed(left) == Merged(UnionBranches(left.st, left.columns, union.with, 1))
    IN Typed(type_union_select(st0, union.left))

type_union_select(st, statement) ==
    IF st.panicked THEN [st |-> st, columns |-> <<>>]
    ELSE IF statement.kind = "Select" THEN type_select(st, statement.select, TRUE)
    ELSE IF statement.kind = "Union" THEN type_union(st, statement.union)
    ELSE [st |-> Push(st, Issue("ice", "Internal compiler error", <<>>, <<"statement", 0>>)),
          columns |-> <<>>]

(***************************************************************************)
(* The schema catalog the statements are typed against.                    *)
(***************************************************************************)
Column(identifier, type_, auto_increment) ==
    [identifier |-> identifier, type_ |-> type_, auto_increment |-> auto_increment]

Schemas ==
    [tbl \in {"t", "a", "v"} |->
        CASE tbl = "t" ->
                [view |-> FALSE,
                 columns |-> <<Column("id", FullTypeNew(Base("Integer"), TRUE), TRUE),
                               Column("name", FullTypeNew(Base("String"), FALSE), FALSE)>>]
          [] tbl = "a" ->
                [view |-> FALSE,
                 columns |-> <<Column("x", FullTypeNew(Base("Integer"), TRUE), FALSE)>>]
          [] tbl = "v" ->
                [view |-> TRUE,
                 columns |-> <<Column("x", FullTypeNew(Base("String"), TRUE), FALSE)>>]]

\* schema.get_column(name): the columns of that name
GetColumn(schema, name) == SelectSeq(schema.columns, LAMBDA c : c.identifier = name)

\* the scope a table of the catalog introduces
TableScope(tbl) ==
    ReferenceType(Some(tbl), <<"table", 0>>,
                  [c \in 1..Len(Schemas[tbl].columns) |->
                      <<Schemas[tbl].columns[c].identifier, Schemas[tbl].columns[c].type_>>])

(***************************************************************************)
(* type_insert_replace (type_insert_replace.rs 31-342).                    *)
(***************************************************************************)
\* the loop over the statement's column list (lines 53-61): [st, col_types]
RECURSIVE InsertColumns(_, _, _, _, _)
InsertColumns(st, schema, columns, k, col_types) ==
    IF k > Len(columns) THEN [st |-> st, col_types |-> col_types]
    ELSE LET c == GetColumn(schema, columns[k]) IN
         IF Len(c) > 0
         THEN InsertColumns(st, schema, columns, k + 1,
                            Append(col_types, [type_ |-> c[1].type_, span |-> <<"column", k>>]))
         ELSE InsertColumns(Push(st, Issue("err", "No such column in schema", <<>>,
                                           <<"column", k>>)),
                            schema, columns, k + 1, col_types)

\* a value checked against an expected full type (lines 75-85, 174-185):
\* a mismatch raises issue, a match constrains the value's placeholders
CheckAgainst(st, vt, et, issue) ==
    LET Matched(r) ==
            IF ~r.ok THEN Push(st, issue)
            ELSE [st EXCEPT !.arg_types = ConstrainAll(r.arg_types, ArgsOf(vt.t), et)]
    IN Matched(matched_type(st.arg_types, vt.t, et.t))

\* one cell of a VALUES row (lines 73-88); s is the Option of col_types; the
\* typing log records the cell's location together with the expected base
ValueCell(st, e, s, row, j) ==
    LET expected == IF s # None /\ j <= Len(s[1]) THEN BaseOf(s[1][j].type_.t) ELSE "Any"
        Typed(r) ==
            IF s # None /\ j <= Len(s[1])
            THEN CheckAgainst(r.st, r.t, s[1][j].type_,
                              Frag(Issue("err", "Got type {}", <<r.t.t>>, <<"value", row, j>>),
                                   "Expected {}", <<s[1][j].type_.t>>, s[1][j].span))
            ELSE r.st
    IN Typed(type_expression(st, e, <<"value", row, j, expected>>))

RECURSIVE ValueRow(_, _, _, _, _)
ValueRow(st, cells, s, row, j) ==
    IF j > Len(cells) THEN st
    ELSE ValueRow(ValueCell(st, cells[j], s, row, j), cells, s, row, j + 1)

RECURSIVE ValueRows(_, _, _, _)
ValueRows(st, rows, s, row) ==
    IF row > Len(rows) THEN st
    ELSE ValueRows(ValueRow(st, rows[row], s, row, 1), rows, s, row + 1)

\* the comparison of the column list with the source SELECT's columns
\* (lines 96-120), i counted from 1
RECURSIVE InsertSelectColumns(_, _, _, _)
InsertSelectColumns(st, s, cols, i) ==
    IF i > Max(Len(s), Len(cols)) \/ st.panicked THEN st
    ELSE IF i <= Len(s) /\ i <= Len(cols) THEN
        LET Matched(r) ==
                InsertSelectColumns(
                    IF r.ok THEN [st EXCEPT !.arg_types = r.arg_types]
                    ELSE Push(st, Frag(Issue("err", "Got type {}", <<cols[i].type_.t>>,
                                             cols[i].span),
                                       "Expected {}", <<s[i].type_.t>>, s[i].span)),
                    s, cols, i + 1)
        IN Matched(matched_type(st.arg_types, cols[i].type_.t, s[i].type_.t))
    ELSE IF i <= Len(cols) THEN
        InsertSelectColumns(Push(st, Issue("err", "Column in select not in insert", <<>>,
                                           cols[i].span)), s, cols, i + 1)
    ELSE IF i <= Len(s) THEN
        InsertSelectColumns(Push(st, Issue("err", "Missing column in select", <<>>,
                                           s[i].span)), s, cols, i + 1)
    ELSE \* panic!("ICE")
         [st EXCEPT !.panicked = TRUE]

\* "Duplicate definitions" for every scope already named tbl (lines 136-142)
RECURSIVE DuplicateDefinitions(_, _, _)
DuplicateDefinitions(st, tbl, k) ==
    IF k > Len(st.reference_types) THEN st
    ELSE DuplicateDefinitions(
            IF st.reference_types[k].name = Some(tbl)
            THEN Push(st, Frag(Issue("err", "Duplicate definitions", <<>>, <<"table", 0>>),
                               "Already defined here", <<>>, st.reference_types[k].span))
            ELSE st,
            tbl, k + 1)

\* variant: the value of an assignment to an unknown key is not typed
Assignment_skips_unknown(st, key, value, what, k) ==
    LET ms == MatchesOf(st.reference_types, key)
        expected == IF Len(ms) = 1 THEN BaseOf(ms[1].type_.t) ELSE "Any"
        Typed(r) ==
            IF Len(ms) > 1
            THEN Push(r.st, DefinedHere(Issue("err", "Ambiguous reference", <<>>,
                                              <<"key", k>>),
                                        st.reference_types, ms, 1))
            ELSE CheckAgainst(r.st, r.t, ms[1].type_,
                              Issue("err", "Got type {} expected {}",
                                    <<r.t.t, ms[1].type_.t>>, <<what, k>>))
    IN IF Len(ms) = 0
       THEN Push(st, Issue("err", "Unknown identifier", <<>>, <<"key", k>>))
       ELSE Typed(type_expression(st, value, <<what, k, expected>>))

\* one assignment key = value of SET, ON DUPLICATE KEY UPDATE or ON CONFLICT
\* DO UPDATE SET (lines 151-190, 194-233, 263-302); the typing log records
\* the value's location together with the expected base
Assignment(st, key, value, what, k) ==
    LET ms == MatchesOf(st.reference_types, key)
        \* the expected base handed to type_expression: the column's base when
        \* the key names one column, Any otherwise
        expected == IF Len(ms) = 1 THEN BaseOf(ms[1].type_.t) ELSE "Any"
        Typed(r) ==
            IF Len(ms) > 1
            THEN Push(r.st, DefinedHere(Issue("err", "Ambiguous reference", <<>>,
                                              <<"key", k>>),
                                        st.reference_types, ms, 1))
            ELSE IF Len(ms) = 1
            THEN CheckAgainst(r.st, r.t, ms[1].type_,
                              Issue("err", "Got type {} expected {}",
                                    <<r.t.t, ms[1].type_.t>>, <<what, k>>))
            ELSE Push(r.st, Issue("err", "Unknown identifier", <<>>, <<"key", k>>))
    IN Typed(type_expression(st, value, <<what, k, expected>>))

RECURSIVE Assignments(_, _, _, _)
Assignments(st, sets, what, k) ==
    IF k > Len(sets) THEN st
    ELSE Assignments(Assignment(st, sets[k].key, sets[k].value, what, k), sets, what, k + 1)

\* ON CONFLICT target and action (lines 236-308)
OnConflict(st, on_conflict) ==
    LET Target(st0) ==
            CASE on_conflict.target.kind = "Column" ->
                    IF Len(MatchesOf(st0.reference_types, on_conflict.target.name)) = 0
                    THEN Push(st0, Issue("err", "Unknown identifier", <<>>, <<"target", 0>>))
                    ELSE st0
              [] on_conflict.target.kind = "OnConstraint" ->
                    Push(st0, Issue("todo", "Not yet implemented", <<>>, <<"target", 0>>))
              [] on_conflict.target.kind = "None" -> st0
        Where(st2) ==
            IF on_conflict.action.where_ # None
            THEN type_expression(st2, on_conflict.action.where_[1],
                                 <<"conflict_where", 0>>).st
            ELSE st2
        Action(st1) ==
            IF on_conflict.action.kind = "DoNothing" THEN st1
            ELSE Where(Assignments(st1, on_conflict.action.sets, "conflict_set", 1))
    IN Action(Target(st))

\* variant: REPLACE is classified like INSERT
AutoIncrementId_any_type(auto_increment, ior) ==
    IF auto_increment
    THEN IF (\E f \in 1..Len(ior.flags) : ior.flags[f] = "Ignore")
            \/ ior.on_duplicate_key_update # None
         THEN "Optional"
         ELSE "Yes"
    ELSE "No"

\* the classification computed last (lines 326-339)
AutoIncrementId(auto_increment, ior) ==
    IF auto_increment /\ ior.type_ = "Insert"
    THEN IF (\E f \in 1..Len(ior.flags) : ior.flags[f] = "Ignore")
            \/ ior.on_duplicate_key_update # None
         THEN "Optional"
         ELSE "Yes"
    ELSE "No"

\* the part under the scope guard (lines 131-322), entered with the scope
\* stack taken: [st, returning_select]
InsertGuarded(st0, ior) ==
    LET t == ior.table[1]
        Target(st) ==
            IF t \in DOMAIN Schemas
            THEN type_reference(DuplicateDefinitions(st, t, 1), TableScope(t))
            ELSE st
        Set(st) == IF ior.set # None THEN Assignments(st, ior.set[1], "set", 1) ELSE st
        Update(st) ==
            IF ior.on_duplicate_key_update # None
            THEN Assignments(st, ior.on_duplicate_key_update[1], "update", 1)
            ELSE st
        Conflict(st) ==
            IF ior.on_conflict # None THEN OnConflict(st, ior.on_conflict[1]) ELSE st
        Selected(r) == [st |-> r.st, returning_select |-> Some(r.result)]
        Returning(st) ==
            IF ior.returning # None
            THEN Selected(type_select_exprs(st, ior.returning[1], TRUE))
            ELSE [st |-> st, returning_select |-> None]
    IN Returning(Conflict(Update(Set(Target(st0)))))

\* the extra table names and the schema lookup (lines 38-50, 66-68)
InsertTable(st0, table) ==
    LET t == table[1]
        Looked(st1) ==
            IF t \in DOMAIN Schemas
            THEN IF Schemas[t].view
                 THEN Push(st1, Issue("err", "Inserts into views not yet implemented", <<>>,
                                      <<"table", 0>>))
                 ELSE st1
            ELSE Push(st1, Issue("err", "Unknown table", <<>>, <<"table", 0>>))
    IN Looked([st0 EXCEPT !.issues =
                  @ \o [k \in 1..(Len(table) - 1) |->
                           Issue("todo", "Not yet implemented", <<>>, <<"table", k>>)]])

\* the part before the scope guard (lines 35-122): [st, auto_increment]
InsertSource(st0, ior) ==
    LET t == ior.table[1]
        known == t \in DOMAIN Schemas
        auto_increment ==
            known /\ \E c \in 1..Len(Schemas[t].columns) : Schemas[t].columns[c].auto_increment
        Values(st, s) ==
            IF ior.values # None THEN ValueRows(st, ior.values[1], s, 1) ELSE st
        Compared(sel, s) ==
            IF s # None /\ ~sel.st.panicked
            THEN InsertSelectColumns(sel.st, s[1], sel.columns, 1)
            ELSE sel.st
        Selected(st, s) ==
            IF ior.select # None THEN Compared(type_select(st, ior.select[1], TRUE), s)
            ELSE st
        Source(st, s) == Selected(Values(st, s), s)
        Listed(cols) == Source(cols.st, Some(cols.col_types))
    IN [st |-> IF known
               THEN Listed(InsertColumns(InsertTable(st0, ior.table), Schemas[t],
                                         ior.columns, 1, <<>>))
               ELSE Source(InsertTable(st0, ior.table), None),
        auto_increment |-> auto_increment]

type_insert_replace(st0, ior) ==
    LET \* typer_stack: the scope stack is taken, and put back on drop
        Guarded(src, g) ==
            [st |-> [g.st EXCEPT !.reference_types = src.st.reference_types],
             auto_increment_id |-> AutoIncrementId(src.auto_increment, ior),
             returning_select |-> g.returning_select]
        Sourced(src) ==
            IF src.st.panicked
            THEN [st |-> src.st, auto_increment_id |-> "No", returning_select |-> None]
            ELSE Guarded(src, InsertGuarded([src.st EXCEPT !.reference_types = <<>>], ior))
    IN Sourced(InsertSource(st0, ior))

(***************************************************************************)
(* Calls of constrain_arg, one after another, on one typing context.       *)
(***************************************************************************)
\* the full types callers hand to constrain_arg: schema column types and
\* FullType::new(base, false)
ConstrainTypes ==
    {FullTypeNew(Base("Any"), FALSE), FullTypeNew(Base("Integer"), TRUE),
     FullTypeNew(Base("Integer"), FALSE), FullTypeNew(Base("String"), FALSE)}

NoCall == [op |-> "none"]

NoRet == [ok |-> FALSE]

Init ==
    /\ issues = <<>>
    /\ reference_types = <<>>
    /\ arg_types = <<>>
    /\ invalid_base \in InvalidBases
    /\ call = NoCall
    /\ ret = NoRet
    /\ typings = <<>>
    /\ panicked = FALSE

ConstrainArgCall ==
    \E idx \in ArgIdx, k \in ArgTypes, t \in ConstrainTypes :
        /\ arg_types' = constrain_arg(arg_types, idx, k, t)
        /\ call' = [op |-> "constrain_arg", idx |-> idx, arg_type |-> k, t |-> t,
                    arg_types |-> arg_types, issues |-> issues]
        /\ UNCHANGED <<issues, reference_types, invalid_base, ret, typings, panicked>>

SpecArg == Init /\ [][ConstrainArgCall]_vars

\* the stored full type before and after the last constrain_arg call
OldStored == Stored(call.arg_types, call.idx)

NewStored == Stored(arg_types, call.idx)

\* C3: once the stored type of a placeholder has a base other than Any, a
\* constrain_arg call whose type has base Any leaves the stored type as it was
\* (only the list_hack flag is raised when the argument kind is ListHack); the
\* stored type and nullability change only when the new type is non-Any or the
\* stored type is still Any.
C3_AnyNeverOverwrites ==
    call.op = "constrain_arg" =>
        /\ (FindArg(call.arg_types, call.idx) # 0 /\ BaseOf(OldStored.t) # "Any"
              /\ BaseOf(call.t.t) = "Any")
           => NewStored = [OldStored EXCEPT
                              !.list_hack = @ \/ call.arg_type = "ListHack"]
        /\ (NewStored.t # OldStored.t \/ NewStored.not_null # OldStored.not_null)
           => (BaseOf(call.t.t) # "Any" \/ BaseOf(OldStored.t) = "Any")

C3_Witness ==
    /\ call.op = "constrain_arg"
    /\ FindArg(call.arg_types, call.idx) # 0
    /\ BaseOf(OldStored.t) = "Integer"
    /\ OldStored.not_null
    /\ BaseOf(call.t.t) = "Any"
    /\ NewStored.t = Base("Integer")

\* a call that gives a placeholder already holding a non-Any type another
\* non-Any base
Inconsistent ==
    /\ call.op = "constrain_arg"
    /\ FindArg(call.arg_types, call.idx) # 0
    /\ BaseOf(OldStored.t) # "Any"
    /\ BaseOf(call.t.t) # "Any"
    /\ BaseOf(call.t.t) # BaseOf(OldStored.t)

\* C4 as stated: a placeholder constrained inconsistently keeps the first
\* non-Any type it was given, and no conflict issue is raised.
C4_KeepsFirst ==
    Inconsistent => (NewStored.t = OldStored.t /\ issues = call.issues)

\* C4 as amended: a later call with a different non-Any base replaces the
\* stored type by that call's type (the last non-Any type wins), and no
\* conflict issue is raised.
C4_KeepsLast ==
    Inconsistent =>
        /\ NewStored.t = call.t.t
        /\ NewStored.not_null = call.t.not_null
        /\ issues = call.issues

C4_Witness ==
    /\ Inconsistent
    /\ OldStored.t = Base("Integer")
    /\ NewStored.t = Base("String")

(***************************************************************************)
(* One call of matched_type on a typing context whose placeholder table is *)
(* one of EntryTables.                                                     *)
(***************************************************************************)
\* the argument lists a Type::Args can carry
ArgLists ==
    {<<ArgRef(i, k)>> : i \in ArgIdx, k \in ArgTypes}
    \cup {<<ArgRef(p[1], "Normal"), ArgRef(p[2], "Normal")>> :
             p \in {q \in ArgIdx \X ArgIdx : q[1] < q[2]}}

UnifyBases == {"Any", "Integer", "String"}

UnifyTypes ==
    {Invalid, Null, U64}
    \cup {Base(b) : b \in UnifyBases}
    \cup {Args(b, a) : b \in {"Any", "Integer"}, a \in ArgLists}

EntryTables ==
    {<<>>, <<<<0, FullTypeNew(Base("String"), TRUE)>>>>}

InitUnify ==
    /\ issues = <<>>
    /\ reference_types = <<>>
    /\ arg_types \in EntryTables
    /\ invalid_base \in InvalidBases
    /\ call = NoCall
    /\ ret = NoRet
    /\ typings = <<>>
    /\ panicked = FALSE

\* what a matched_type call leaves: the placeholder table and the result
LeaveMatched(r) ==
    /\ arg_types' = r.arg_types
    /\ ret' = [ok |-> r.ok, t |-> r.t]

MatchedTypeCall ==
    /\ call = NoCall
    /\ \E t1 \in UnifyTypes, t2 \in UnifyTypes :
        /\ LeaveMatched(matched_type(arg_types, t1, t2))
        /\ call' = [op |-> "matched_type", t1 |-> t1, t2 |-> t2,
                    arg_types |-> arg_types, issues |-> issues]
        /\ UNCHANGED <<issues, reference_types, invalid_base, typings, panicked>>

SpecUnify == InitUnify /\ [][MatchedTypeCall]_vars

\* C6: matched_type(A, B) returns a type exactly when matched_type(B, A)
\* does, and both succeed when A and B have the same non-wildcard base.
C6_Commutative ==
    call.op = "matched_type" =>
        /\ ret.ok <=> matched_type(call.arg_types, call.t2, call.t1).ok
        /\ (BaseOf(call.t1) = BaseOf(call.t2) /\ BaseOf(call.t1) # "Any") => ret.ok

C6_Witness ==
    /\ call.op = "matched_type"
    /\ call.t1 = U64
    /\ call.t2.tag = "Args"
    /\ BaseOf(call.t2) = "Integer"
    /\ ret.ok

\* C7: Null unified with X, in either order, returns X; Any unified with X,
\* in either order, returns a type whose base is X's base.
C7_NullAndAny ==
    call.op = "matched_type" =>
        /\ call.t1 = Null => (ret.ok /\ ret.t = call.t2)
        /\ call.t2 = Null => (ret.ok /\ ret.t = call.t1)
        /\ call.t1 = Base("Any") => (ret.ok /\ BaseOf(ret.t) = BaseOf(call.t2))
        /\ call.t2 = Base("Any") => (ret.ok /\ BaseOf(ret.t) = BaseOf(call.t1))

C7_Witness ==
    /\ call.op = "matched_type"
    /\ call.t1 = Null
    /\ call.t2 = U64
    /\ ret = [ok |-> TRUE, t |-> U64]

\* C8 as stated: Invalid with Invalid returns Invalid, and Invalid with any
\* other type, Null and Any included, returns no match.
C8_InvalidOnlyItself ==
    call.op = "matched_type" =>
        /\ (call.t1 = Invalid /\ call.t2 = Invalid) => (ret.ok /\ ret.t = Invalid)
        /\ ((call.t1 = Invalid) # (call.t2 = Invalid)) => ~ret.ok

\* the operand of the last matched_type call that is not Invalid
OtherThanInvalid == IF call.t1 = Invalid THEN call.t2 ELSE call.t1

\* C8 as amended: Invalid with Invalid returns Invalid; Invalid with Null, in
\* either order, returns Invalid; Invalid with any other type X returns a type
\* when X's base is Any and, unless Invalid's own base is Any, no match
\* otherwise.
C8_InvalidUnifies ==
    call.op = "matched_type" =>
        /\ (call.t1 = Invalid /\ call.t2 = Invalid) => (ret.ok /\ ret.t = Invalid)
        /\ ((call.t1 = Invalid) # (call.t2 = Invalid)) =>
              IF OtherThanInvalid = Null THEN ret.ok /\ ret.t = Invalid
              ELSE ret.ok <=> (BaseOf(OtherThanInvalid) = "Any" \/ BaseOf(Invalid) = "Any")

C8_Witness ==
    /\ call.op = "matched_type"
    /\ call.t1 = Invalid
    /\ call.t2 = Null
    /\ ret = [ok |-> TRUE, t |-> Invalid]

(***************************************************************************)
(* One call of type_function on a fresh typing context.                    *)
(***************************************************************************)
\* the i-th argument is a literal or the placeholder i-1
ArgExprs(i) ==
    {Lit(Base("Integer"), TRUE), Lit(Base("String"), TRUE), Lit(Base("String"), FALSE),
     Lit(Base("Bool"), TRUE), Placeholder(i - 1)}

ArgSeqs ==
    UNION {{f \in [1..n -> UNION {ArgExprs(i) : i \in 1..n}] :
               \A i \in 1..n : f[i] \in ArgExprs(i)} : n \in 0..MaxArgs}

\* what a type_function call leaves: the typing context r.st and the type r.t
LeaveTyped(r) ==
    /\ issues' = r.st.issues
    /\ arg_types' = r.st.arg_types
    /\ typings' = r.st.typed
    /\ ret' = [ok |-> TRUE, t |-> r.t]

TypeFunctionCall ==
    /\ call = NoCall
    /\ \E func \in Funcs, args \in ArgSeqs, odku \in BOOLEAN :
        /\ LeaveTyped(type_function(Typer(issues, reference_types, arg_types),
                                    func, args, odku))
        /\ call' = [op |-> "type_function", func |-> func, args |-> args,
                    in_on_duplicate_key_update |-> odku,
                    arg_types |-> arg_types, issues |-> issues]
        /\ UNCHANGED <<reference_types, invalid_base, panicked>>

SpecFunc == Init /\ [][TypeFunctionCall]_vars

\* the arity errors among the issues
ArityMsgs ==
    {"Expected {} arguments got {}", "Expected between {} and {} arguments got {}"}

ArityErrors == {i \in 1..Len(issues) : issues[i].sev = "err" /\ issues[i].msg \in ArityMsgs}

\* C9: a function declared with R required and O optional argument types,
\* called with n arguments, raises no arity error when R <= n <= R+O and
\* exactly one for every other n.
C9_ArityErrors ==
    (call.op = "type_function" /\ call.func \in DeclarativeFuncs) =>
        LET R == Len(Sig(call.func).req)
            O == Len(Sig(call.func).opt)
            n == Len(call.args)
        IN Cardinality(ArityErrors) = IF R <= n /\ n <= R + O THEN 0 ELSE 1

C9_Witness ==
    /\ call.op = "type_function"
    /\ call.func = "SubStr"
    /\ Len(call.args) = 4
    /\ Cardinality(ArityErrors) = 1

\* C10: for every function tag and every argument count, type_function runs
\* the expression typer on each argument exactly once.
C10_EachArgTypedOnce ==
    call.op = "type_function" =>
        \A i \in 1..Len(call.args) : TimesTyped(typings, ExprSpan(i)) = 1

(***************************************************************************)
(* One call of type_select, type_union, type_union_select or               *)
(* type_insert_replace on a typing context whose scope stack is one of     *)
(* EntryStacks (the call may be nested in an enclosing statement).         *)
(***************************************************************************)
IntLit == Lit(Base("Integer"), TRUE)

StrLit == Lit(Base("String"), TRUE)

BoolLit == Lit(Base("Bool"), TRUE)

EntryStacks ==
    {<<>>,
     <<TableScope("a")>>,
     <<ReferenceType(Some("o"), <<"outer", 0>>,
                     <<<<"x", FullTypeNew(Base("String"), FALSE)>>>>),
       TableScope("t")>>,
     \* a derived table whose select list names two columns x
     <<ReferenceType(Some("d"), <<"derived", 0>>,
                     <<<<"x", FullTypeNew(Base("Integer"), TRUE)>>,
                       <<"x", FullTypeNew(Base("String"), TRUE)>>>>)>>}

InitStmt ==
    /\ issues = <<>>
    /\ reference_types \in EntryStacks
    /\ arg_types = <<>>
    /\ invalid_base \in InvalidBases
    /\ call = NoCall
    /\ ret = NoRet
    /\ typings = <<>>
    /\ panicked = FALSE

SelectItems ==
    {Ident(<<Star>>, None), Ident(<<Name("x")>>, None), Ident(<<Name("id")>>, Some("x")),
     Ident(<<Name("t"), Name("name")>>, None), Ident(<<Name("a"), Star>>, None),
     Other(IntLit, Some("x")), Other(StrLit, Some("y")), Other(Placeholder(0), None)}

SelectLists == UNION {[1..n -> SelectItems] : n \in 1..MaxSelectExprs}

\* the clauses around the select list
SelectClauses ==
    {[flags |-> <<>>, where_ |-> None, group_by |-> <<>>, order_by |-> <<>>, limit |-> None],
     [flags |-> <<"Distinct", "HighPriority">>, where_ |-> Some(BoolLit),
      group_by |-> <<IntLit>>, order_by |-> <<StrLit>>,
      limit |-> Some([offset |-> None, count |-> IntLit])],
     [flags |-> <<>>, where_ |-> Some(IntLit), group_by |-> <<>>, order_by |-> <<>>,
      limit |-> Some([offset |-> Some(StrLit), count |-> Placeholder(1)])]}

TableReferences == {<<>>, <<TableScope("t")>>, <<TableScope("a"), TableScope("v")>>}

Select(refs, exprs, c) ==
    [flags |-> c.flags, table_references |-> refs, where_ |-> c.where_,
     select_exprs |-> exprs, group_by |-> c.group_by, order_by |-> c.order_by,
     limit |-> c.limit]

Selects ==
    {Select(refs, exprs, c) : refs \in TableReferences, exprs \in SelectLists,
                              c \in SelectClauses}

PlainClauses == CHOOSE c \in SelectClauses : c.where_ = None

\* the branches a UNION is built from
BranchSelects ==
    {Select(refs, exprs, PlainClauses) :
        refs \in {<<>>, <<TableScope("t")>>},
        exprs \in {<<Ident(<<Star>>, None)>>, <<Other(IntLit, Some("x"))>>,
                   <<Other(StrLit, Some("x"))>>,
                   <<Other(IntLit, None), Other(StrLit, Some("y"))>>}}

Union(left, with, c) ==
    [left |-> left, with |-> with, order_by |-> c.order_by, limit |-> c.limit]

InnerUnions ==
    {UnionStmt(Union(SelectStmt(l), <<SelectStmt(r)>>, PlainClauses)) :
        l \in {Select(<<>>, <<Other(IntLit, Some("x"))>>, PlainClauses)},
        r \in {Select(<<>>, <<Other(StrLit, Some("x"))>>, PlainClauses),
               Select(<<>>, <<Ident(<<Star>>, None)>>, PlainClauses)}}

Branches == {SelectStmt(sel) : sel \in BranchSelects} \cup {OtherStmt} \cup InnerUnions

Unions ==
    {Union(left, with, c) :
        left \in Branches,
        with \in UNION {[1..n -> Branches] : n \in 1..MaxBranches},
        c \in {c \in SelectClauses : c.group_by = <<>>}}

\* cell j of row r is a literal or a placeholder of its own
Cells(r, j) == {StrLit, Placeholder((r - 1) * MaxCells + (j - 1))}

\* the rows of m cells that can stand at position r of VALUES
RowsAt(r, m) ==
    {row \in [1..m -> UNION {Cells(r, j) : j \in 1..m}] :
        \A j \in 1..m : row[j] \in Cells(r, j)}

\* n rows of m cells each
RowsOf(n, m) ==
    {rows \in [1..n -> UNION {RowsAt(r, m) : r \in 1..n}] :
        \A r \in 1..n : rows[r] \in RowsAt(r, m)}

ValueRowsSet == UNION {RowsOf(n, m) : n \in 1..MaxRows, m \in 1..MaxCells}

Heads ==
    {[type_ |-> h[1], flags |-> h[2]] :
        h \in {<<"Insert", <<>>>>, <<"Insert", <<"Ignore">>>>, <<"Replace", <<>>>>}}

PlainHead == [type_ |-> "Insert", flags |-> <<>>]

Tables == {<<"t">>, <<"a">>, <<"v">>, <<"zz">>, <<"t", "a">>}

ColumnLists == {<<>>, <<"id">>, <<"id", "name">>, <<"zzz", "id">>, <<"x">>}

Assign(key, value) == [key |-> key, value |-> value]

AssignLists ==
    {<<Assign("id", IntLit)>>, <<Assign("unknown_col", IntLit), Assign("name", IntLit)>>,
     <<Assign("name", Placeholder(7)), Assign("id", Placeholder(8))>>}

OnConflicts ==
    {[target |-> [kind |-> "Column", name |-> "id"],
      action |-> [kind |-> "DoUpdateSet", sets |-> <<Assign("name", StrLit)>>,
                  where_ |-> Some(BoolLit)]],
     [target |-> [kind |-> "Column", name |-> "nope"],
      action |-> [kind |-> "DoNothing", sets |-> <<>>, where_ |-> None]],
     [target |-> [kind |-> "OnConstraint", name |-> ""],
      action |-> [kind |-> "DoUpdateSet", sets |-> <<Assign("nope", Placeholder(9))>>,
                  where_ |-> None]],
     [target |-> [kind |-> "None", name |-> ""],
      action |-> [kind |-> "DoNothing", sets |-> <<>>, where_ |-> None]]}

Returnings == {<<Ident(<<Star>>, None)>>, <<Ident(<<Name("id")>>, Some("k")), Other(IntLit, None)>>}

\* the clauses after the source of the rows
NoTail ==
    [set |-> None, on_duplicate_key_update |-> None, on_conflict |-> None,
     returning |-> None]

Tails ==
    {NoTail}
    \cup {[NoTail EXCEPT !.set = Some(a)] : a \in AssignLists}
    \cup {[NoTail EXCEPT !.on_duplicate_key_update = Some(a)] : a \in AssignLists}
    \cup {[NoTail EXCEPT !.on_conflict = Some(c)] : c \in OnConflicts}
    \cup {[NoTail EXCEPT !.returning = Some(r)] : r \in Returnings}
    \cup {[NoTail EXCEPT !.on_duplicate_key_update = Some(a), !.returning = Some(r)] :
             a \in AssignLists, r \in Returnings}

InsertReplace(h, table, columns, values, select, tail) ==
    [type_ |-> h.type_, flags |-> h.flags, table |-> table, columns |-> columns,
     values |-> values, select |-> select, set |-> tail.set,
     on_duplicate_key_update |-> tail.on_duplicate_key_update,
     on_conflict |-> tail.on_conflict, returning |-> tail.returning]

InsertReplaces ==
    {InsertReplace(PlainHead, tbl, cols, Some(rows), None, NoTail) :
        tbl \in Tables, cols \in ColumnLists, rows \in ValueRowsSet}
    \cup {InsertReplace(PlainHead, tbl, cols, None, Some(sel), NoTail) :
            tbl \in Tables, cols \in ColumnLists, sel \in BranchSelects}
    \cup {InsertReplace(h, tbl, <<"id">>, src, None, tail) :
            h \in Heads, tbl \in Tables, src \in {None, Some(<<<<Placeholder(0)>>>>)},
            tail \in Tails}

\* what a statement call leaves: the typing context r.st, and what it returned
Leave(r, what) ==
    /\ issues' = r.st.issues
    /\ reference_types' = r.st.reference_types
    /\ arg_types' = r.st.arg_types
    /\ typings' = r.st.typed
    /\ panicked' = r.st.panicked
    /\ ret' = IF what = "columns"
              THEN [ok |-> ~r.st.panicked, columns |-> r.columns]
              ELSE [ok |-> ~r.st.panicked, auto_increment_id |-> r.auto_increment_id,
                    returning_select |-> r.returning_select]
    /\ UNCHANGED invalid_base

Entered(op) ==
    [op |-> op, arg_types |-> arg_types, issues |-> issues,
     reference_types |-> reference_types]

TypeSelectCall ==
    /\ call = NoCall
    /\ \E select \in Selects, warn_duplicate \in BOOLEAN :
        /\ Leave(type_select(Typer(issues, reference_types, arg_types), select,
                             warn_duplicate),
                 "columns")
        /\ call' = Entered("type_select")
                      @@ [select |-> select, warn_duplicate |-> warn_duplicate]

TypeUnionCall ==
    /\ call = NoCall
    /\ \E union \in Unions :
        /\ Leave(type_union(Typer(issues, reference_types, arg_types), union), "columns")
        /\ call' = Entered("type_union") @@ [union |-> union]

TypeUnionSelectCall ==
    /\ call = NoCall
    /\ \E statement \in Branches :
        /\ Leave(type_union_select(Typer(issues, reference_types, arg_types), statement),
                 "columns")
        /\ call' = Entered("type_union_select") @@ [statement |-> statement]

TypeInsertReplaceCall ==
    /\ call = NoCall
    /\ \E ior \in InsertReplaces :
        /\ Leave(type_insert_replace(Typer(issues, reference_types, arg_types), ior),
                 "insert")
        /\ call' = Entered("type_insert_replace") @@ [ior |-> ior]

NextStmt ==
    \/ TypeSelectCall
    \/ TypeUnionCall
    \/ TypeUnionSelectCall
    \/ TypeInsertReplaceCall

SpecStmt == InitStmt /\ [][NextStmt]_vars

StmtOps == {"type_select", "type_union", "type_union_select", "type_insert_replace"}

\* C1: no call of type_select, type_union, type_union_select or
\* type_insert_replace reaches a panic.
C1_NoPanic ==
    call.op \in StmtOps => ~panicked

\* C2: when type_select, type_union or type_insert_replace returns, the scope
\* stack holds exactly the scopes, in the same order, it held at entry.
C2_ScopesRestored ==
    (call.op \in {"type_select", "type_union", "type_insert_replace"} /\ ~panicked)
        => reference_types = call.reference_types

C2_Witness ==
    /\ call.op = "type_union"
    /\ ~panicked
    /\ call.union.left.kind = "Union"
    /\ Len(call.reference_types) = 2
    /\ reference_types = call.reference_types

\* the placeholder cells of the last INSERT ... VALUES whose destination
\* column, the one the column list names at the cell's position, is a column
\* of the target table's schema with a base other than Any: <<row, j>>
ConstrainedCells ==
    IF call.op = "type_insert_replace" /\ call.ior.values # None
          /\ call.ior.table[1] \in DOMAIN Schemas
    THEN {c \in (1..MaxRows) \X (1..MaxCells) :
            /\ c[1] <= Len(call.ior.values[1])
            /\ c[2] <= Len(call.ior.values[1][c[1]])
            /\ call.ior.values[1][c[1]][c[2]].kind = "arg"
            /\ c[2] <= Len(call.ior.columns)
            /\ Len(GetColumn(Schemas[call.ior.table[1]], call.ior.columns[c[2]])) > 0
            /\ BaseOf(GetColumn(Schemas[call.ior.table[1]],
                                call.ior.columns[c[2]])[1].type_.t) # "Any"}
    ELSE {}

DestinationType(c) == GetColumn(Schemas[call.ior.table[1]], call.ior.columns[c[2]])[1].type_

EntriesFor(idx) == {i \in 1..Len(arg_types) : arg_types[i][1] = idx}

\* C5: for an INSERT/REPLACE with a VALUES row whose cell at position j is a
\* placeholder and whose j-th destination column has schema type T, T's base
\* not Any, the placeholder table afterwards has exactly one entry for that
\* placeholder and its base is T's base.
C5_PlaceholderGetsColumnBase ==
    \A c \in ConstrainedCells :
        /\ Cardinality(EntriesFor(call.ior.values[1][c[1]][c[2]].idx)) = 1
        /\ BaseOf(Stored(arg_types, call.ior.values[1][c[1]][c[2]].idx).t)
              = BaseOf(DestinationType(c).t)

(***************************************************************************)
(* Claims on single function arms (SpecFunc).                              *)
(***************************************************************************)
\* C11: MIN, MAX and SUM return a nullable result for every argument list
\* (not_null = FALSE even when the single argument is not-null), and with one
\* argument the result's base is that argument's base.
C11_AggregateNullable ==
    (call.op = "type_function" /\ call.func \in {"Min", "Max", "Sum"}) =>
        /\ ret.t.not_null = FALSE
        /\ Len(call.args) = 1 =>
              BaseOf(ret.t.t) = BaseOf(TypeOfExpr(call.args[1]).t)

C11_Witness ==
    /\ call.op = "type_function"
    /\ call.func = "Max"
    /\ call.args = <<Lit(Base("Integer"), TRUE)>>
    /\ ret = [ok |-> TRUE, t |-> FullTypeNew(Base("Integer"), FALSE)]

\* the errors among the issues
Errors == {i \in 1..Len(issues) : issues[i].sev = "err"}

\* two types unify when their bases agree or one of them is the wildcard
Unifiable(t1, t2) == BaseOf(t1) = BaseOf(t2) \/ BaseOf(t1) = "Any" \/ BaseOf(t2) = "Any"

\* C12: for IF(c, a, b) with c of type Bool, when the types of a and b do not
\* unify exactly one "Incompatible types" error is raised, carrying one
\* fragment per branch that names the branch's type, and no other error;
\* when they unify no error is raised and the result is the unified type.
C12_IfBranches ==
    (/\ call.op = "type_function"
     /\ call.func = "If"
     /\ Len(call.args) = 3
     /\ BaseOf(TypeOfExpr(call.args[1]).t) = "Bool") =>
        LET a == TypeOfExpr(call.args[2]).t
            b == TypeOfExpr(call.args[3]).t
        IN IF Unifiable(a, b)
           THEN /\ Errors = {}
                /\ BaseOf(ret.t.t) = IF BaseOf(a) = "Any" THEN BaseOf(b) ELSE BaseOf(a)
           ELSE /\ Cardinality(Errors) = 1
                /\ \A i \in Errors :
                      /\ issues[i].msg = "Incompatible types"
                      /\ issues[i].frags =
                            <<[msg |-> "Of type {}", params |-> <<a>>, at |-> ExprSpan(2)],
                              [msg |-> "Of type {}", params |-> <<b>>, at |-> ExprSpan(3)]>>

C12_Witness ==
    /\ call.op = "type_function"
    /\ call.func = "If"
    /\ call.args = <<Lit(Base("Bool"), TRUE), Lit(Base("Integer"), TRUE),
                     Lit(Base("String"), TRUE)>>
    /\ Cardinality(Errors) = 1
    /\ issues[1].msg = "Incompatible types"
    /\ Len(issues[1].frags) = 2

C12_WitnessUnified ==
    /\ call.op = "type_function"
    /\ call.func = "If"
    /\ call.args = <<Lit(Base("Bool"), TRUE), Lit(Base("Integer"), TRUE), Placeholder(2)>>
    /\ Errors = {}
    /\ ret.t.t = Base("Integer")

(***************************************************************************)
(* Claims on select lists (SpecStmt).                                      *)
(***************************************************************************)
\* the scopes a select list of the call's select sees: the stack at entry and
\* then the FROM references in order
InScope == call.reference_types \o call.select.table_references

\* the number of columns in the scopes before scope s
RECURSIVE ColumnsBefore(_, _)
ColumnsBefore(rt, s) ==
    IF s <= 1 THEN 0 ELSE ColumnsBefore(rt, s - 1) + Len(rt[s - 1].columns)

\* the output columns the k-th select expression produced through `*`
StarColumns(k) == SelectSeq(ret.columns, LAMBDA c : c.span = <<"star", k>>)

\* C13: a bare `*` select item expands to exactly one output column for every
\* column of every in-scope reference, in scope-stack order and then column
\* order within a scope, each with the column's name and full type unchanged.
C13_StarExpands ==
    (call.op = "type_select" /\ ret.ok) =>
        \A k \in 1..Len(call.select.select_exprs) :
            call.select.select_exprs[k] = Ident(<<Star>>, None) =>
                /\ Len(StarColumns(k)) = ColumnsBefore(InScope, Len(InScope) + 1)
                /\ \A s \in 1..Len(InScope) : \A c \in 1..Len(InScope[s].columns) :
                      /\ StarColumns(k)[ColumnsBefore(InScope, s) + c].name
                            = Some(InScope[s].columns[c][1])
                      /\ StarColumns(k)[ColumnsBefore(InScope, s) + c].type_
                            = InScope[s].columns[c][2]

\* SELECT * FROM t, t = (id Integer not-null, name String nullable)
C13_Witness ==
    /\ call.op = "type_select"
    /\ call.reference_types = <<>>
    /\ call.select.table_references = <<TableScope("t")>>
    /\ call.select.select_exprs = <<Ident(<<Star>>, None)>>
    /\ ret.ok
    /\ ret.columns =
          <<[name |-> Some("id"), type_ |-> FullTypeNew(Base("Integer"), TRUE),
             span |-> <<"star", 1>>],
            [name |-> Some("name"), type_ |-> FullTypeNew(Base("String"), FALSE),
             span |-> <<"star", 1>>]>>

\* `*` below an outer scope: the outer scope's columns come first
C13_WitnessNested ==
    /\ call.op = "type_select"
    /\ Len(call.reference_types) = 2
    /\ Len(call.select.table_references) = 2
    /\ call.select.select_exprs = <<Ident(<<Star>>, None)>>
    /\ ret.ok
    /\ Len(ret.columns) = 5

\* the scopes among rt that define a column named col
Defining(rt, col) ==
    {s \in 1..Len(rt) : \E c \in 1..Len(rt[s].columns) : rt[s].columns[c][1] = col}

\* the errors raised at the name of the k-th select expression
ErrorsAtName(k) == {i \in Errors : issues[i].at = <<"col", k>>}

\* the output columns of the k-th select expression when it is a single name
NameColumns(k) == SelectSeq(ret.columns, LAMBDA c : c.span \in {<<"col", k>>, <<"as", k>>})

\* the k-th select expression is a single unqualified name
SingleName(k) ==
    /\ call.select.select_exprs[k].kind = "ident"
    /\ Len(call.select.select_exprs[k].parts) = 1
    /\ call.select.select_exprs[k].parts[1].kind = "Name"

\* C14: resolving a single unqualified name in a select list raises exactly
\* one unknown-identifier error when no in-scope reference defines it, exactly
\* one ambiguous-reference error with one "Defined here" fragment per defining
\* scope when more than one in-scope reference defines it, and no error when
\* exactly one defines it, in which case one output column is emitted, named
\* by the explicit alias or else by the column name.
C14_SingleName ==
    (call.op = "type_select" /\ ret.ok) =>
        \A k \in 1..Len(call.select.select_exprs) : SingleName(k) =>
            LET e == call.select.select_exprs[k]
                ds == Defining(InScope, e.parts[1].value)
            IN CASE ds = {} ->
                      /\ Cardinality(ErrorsAtName(k)) = 1
                      /\ \A i \in ErrorsAtName(k) : issues[i].msg = "Unknown identifier"
                 [] Cardinality(ds) > 1 ->
                      /\ Cardinality(ErrorsAtName(k)) = 1
                      /\ \A i \in ErrorsAtName(k) :
                            /\ issues[i].msg = "Ambigious reference"
                            /\ Len(issues[i].frags) = Cardinality(ds)
                            /\ \A f \in 1..Len(issues[i].frags) :
                                  issues[i].frags[f].msg = "Defined here"
                 [] OTHER ->
                      /\ ErrorsAtName(k) = {}
                      /\ Len(NameColumns(k)) = 1
                      /\ NameColumns(k)[1].name =
                            IF e.as_ # None THEN e.as_ ELSE Some(e.parts[1].value)

\* C20: an unqualified name in a select list that occurs more than once in a
\* single scope and in no other scope raises no ambiguous-reference error.
C20_DuplicatesInOneScope ==
    (call.op = "type_select" /\ ret.ok) =>
        \A k \in 1..Len(call.select.select_exprs) :
            (SingleName(k)
             /\ Cardinality(Defining(InScope,
                                     call.select.select_exprs[k].parts[1].value)) = 1) =>
                \A i \in ErrorsAtName(k) : issues[i].msg # "Ambigious reference"

(***************************************************************************)
(* Claims on unions (SpecStmt).                                            *)
(***************************************************************************)
\* the call types a union of two SELECT branches
TwoSelects ==
    /\ call.op = "type_union"
    /\ call.union.left.kind = "Select"
    /\ Len(call.union.with) = 1
    /\ call.union.with[1].kind = "Select"

\* the output columns of a SELECT branch of the call's union
BranchColumns(statement) ==
    type_select(Typer(<<>>, call.reference_types, <<>>), statement.select, TRUE).columns

\* the errors of one message that cite column position i (counted from 1)
UnionErrors(msg, i) ==
    {e \in Errors : issues[e].msg = msg /\ Len(issues[e].frags) = 2
                                        /\ issues[e].frags[1].params[1] = i - 1}

\* C15: for each column position present in both sides of a union: when the
\* two columns have the same name but types that do not unify, exactly one
\* incompatible-types error and no name-mismatch error is raised for that
\* position; when the types unify, the accumulated column's type becomes the
\* unified type and no type error is raised for the position.
C15_UnionPosition ==
    (TwoSelects /\ ret.ok) =>
        LET L == BranchColumns(call.union.left)
            R == BranchColumns(call.union.with[1])
        IN \A i \in 1..Len(L) : i <= Len(R) =>
              IF Unifiable(L[i].type_.t, R[i].type_.t)
              THEN /\ UnionErrors("Incompatible types in union", i) = {}
                   /\ BaseOf(ret.columns[i].type_.t) =
                         IF BaseOf(L[i].type_.t) = "Any" THEN BaseOf(R[i].type_.t)
                         ELSE BaseOf(L[i].type_.t)
                   /\ ret.columns[i].type_.not_null
                         = (L[i].type_.not_null /\ R[i].type_.not_null)
              ELSE /\ Cardinality(UnionErrors("Incompatible types in union", i)) = 1
                   /\ L[i].name = R[i].name =>
                         UnionErrors("Incompatible names in union", i) = {}

\* SELECT 1 AS x UNION SELECT 'y' AS x: one error in total
C15_Witness ==
    /\ TwoSelects
    /\ call.union.left.select.select_exprs = <<Other(IntLit, Some("x"))>>
    /\ call.union.with[1].select.select_exprs = <<Other(StrLit, Some("x"))>>
    /\ call.union.order_by = <<>>
    /\ call.union.limit = None
    /\ ret.ok
    /\ Cardinality(Errors) = 1
    /\ issues[1].msg = "Incompatible types in union"

\* a not-null String column united with a nullable one becomes nullable
C15_WitnessUnified ==
    /\ TwoSelects
    /\ ret.ok
    /\ Len(BranchColumns(call.union.left)) = 2
    /\ Len(ret.columns) = 2
    /\ BranchColumns(call.union.left)[2].type_ = FullTypeNew(Base("String"), TRUE)
    /\ ret.columns[2].type_ = FullTypeNew(Base("String"), FALSE)

(***************************************************************************)
(* Claims on INSERT / REPLACE (SpecStmt).                                  *)
(***************************************************************************)
\* the column names of the call's target scope: the catalog's columns of the
\* target table, none for a table the catalog does not know
TargetColumns ==
    IF call.ior.table[1] \in DOMAIN Schemas
    THEN {Schemas[call.ior.table[1]].columns[c].identifier :
            c \in 1..Len(Schemas[call.ior.table[1]].columns)}
    ELSE {}

\* the assignment lists of the call's statement: <<clause, list>>
AssignmentLists ==
    (IF call.ior.set # None THEN {<<"set", call.ior.set[1]>>} ELSE {})
    \cup (IF call.ior.on_duplicate_key_update # None
          THEN {<<"update", call.ior.on_duplicate_key_update[1]>>} ELSE {})
    \cup (IF call.ior.on_conflict # None
             /\ call.ior.on_conflict[1].action.kind = "DoUpdateSet"
          THEN {<<"conflict_set", call.ior.on_conflict[1].action.sets>>} ELSE {})

\* the typings of the value of the k-th assignment of a clause
ValueTypings(what, k) ==
    {n \in 1..Len(typings) : Len(typings[n]) = 3 /\ typings[n][1] = what
                                                 /\ typings[n][2] = k}

\* the errors raised at the key of the k-th assignment
KeyErrors(k) == {i \in Errors : issues[i].at = <<"key", k>>}

\* C16: for each assignment key = value of SET, ON DUPLICATE KEY UPDATE or
\* ON CONFLICT DO UPDATE whose key names no column of the target scope,
\* exactly one unknown-identifier error is raised for that assignment and its
\* value is typed exactly once, with expected base Any; every other
\* assignment of the list is typed exactly once as well.
C16_UnknownKey ==
    (call.op = "type_insert_replace" /\ ret.ok) =>
        \A al \in AssignmentLists : \A k \in 1..Len(al[2]) :
            /\ Cardinality(ValueTypings(al[1], k)) = 1
            /\ al[2][k].key \notin TargetColumns =>
                  /\ Cardinality(KeyErrors(k)) = 1
                  /\ \A i \in KeyErrors(k) : issues[i].msg = "Unknown identifier"
                  /\ \A n \in ValueTypings(al[1], k) : typings[n][3] = "Any"

\* ON DUPLICATE KEY UPDATE unknown_col = 1, name = 1 on table t
C16_Witness ==
    /\ call.op = "type_insert_replace"
    /\ call.ior.table = <<"t">>
    /\ call.ior.on_duplicate_key_update
          = Some(<<Assign("unknown_col", IntLit), Assign("name", IntLit)>>)
    /\ ret.ok
    /\ Cardinality(KeyErrors(1)) = 1
    /\ KeyErrors(2) = {}
    /\ ValueTypings("update", 1) # {}
    /\ ValueTypings("update", 2) # {}

\* the call's target table is known and has an auto-increment column
TargetAutoIncrement ==
    /\ call.ior.table[1] \in DOMAIN Schemas
    /\ \E c \in 1..Len(Schemas[call.ior.table[1]].columns) :
          Schemas[call.ior.table[1]].columns[c].auto_increment

\* the call's statement carries IGNORE or ON DUPLICATE KEY UPDATE
IgnoreOrUpdate ==
    \/ \E f \in 1..Len(call.ior.flags) : call.ior.flags[f] = "Ignore"
    \/ call.ior.on_duplicate_key_update # None

\* C17: the auto-increment classification returned by type_insert_replace:
\* for an INSERT into a table with an auto-increment column it is Yes with
\* neither IGNORE nor ON DUPLICATE KEY UPDATE and Optional with either of
\* them; it is No otherwise (REPLACE, an unknown table, a table without an
\* auto-increment column).
C17_AutoIncrement ==
    (call.op = "type_insert_replace" /\ ret.ok) =>
        ret.auto_increment_id =
            IF TargetAutoIncrement /\ call.ior.type_ = "Insert"
            THEN IF IgnoreOrUpdate THEN "Optional" ELSE "Yes"
            ELSE "No"

C17_Witness ==
    /\ call.op = "type_insert_replace"
    /\ call.ior.type_ = "Insert"
    /\ call.ior.table = <<"t">>
    /\ call.ior.flags = <<"Ignore">>
    /\ ret.ok
    /\ ret.auto_increment_id = "Optional"

C17_WitnessYes ==
    /\ call.op = "type_insert_replace"
    /\ call.ior.type_ = "Insert"
    /\ call.ior.table = <<"t">>
    /\ ~IgnoreOrUpdate
    /\ ret.ok
    /\ ret.auto_increment_id = "Yes"

C17_WitnessReplace ==
    /\ call.op = "type_insert_replace"
    /\ call.ior.type_ = "Replace"
    /\ call.ior.table = <<"t">>
    /\ call.ior.on_duplicate_key_update # None
    /\ ret.ok
    /\ ret.auto_increment_id = "No"

C17_WitnessNoColumn ==
    /\ call.op = "type_insert_replace"
    /\ call.ior.type_ = "Insert"
    /\ call.ior.table = <<"a">>
    /\ call.ior.flags = <<"Ignore">>
    /\ ret.ok
    /\ ret.auto_increment_id = "No"

(***************************************************************************)
(* Claims on sequences of constrain_arg calls (SpecArg).                   *)
(***************************************************************************)
\* C18: once a placeholder's list_hack flag has been set by a call with the
\* ListHack argument kind, it stays set after every later constrain_arg call
\* on that index, whatever that call's argument kind and type.
C18_ListHackStays ==
    (call.op = "constrain_arg" /\ FindArg(call.arg_types, call.idx) # 0
                               /\ OldStored.list_hack)
        => NewStored.list_hack

\* the typings of the cell at position j of row r of VALUES
CellTypings(r, j) ==
    {n \in 1..Len(typings) : Len(typings[n]) = 4 /\ typings[n][1] = "value"
                                                 /\ typings[n][2] = r /\ typings[n][3] = j}

\* C19: in INSERT/REPLACE ... VALUES, the cell at position j of every row is
\* checked against the schema type of the column that the column list names
\* at position j, and against Any when j is past the end of the column list,
\* also when a column name unknown to the schema precedes position j; every
\* cell is typed exactly once.
C19_CellAgainstNamedColumn ==
    (call.op = "type_insert_replace" /\ ret.ok /\ call.ior.values # None
        /\ call.ior.table[1] \in DOMAIN Schemas) =>
        \A r \in 1..Len(call.ior.values[1]) : \A j \in 1..Len(call.ior.values[1][r]) :
            /\ Cardinality(CellTypings(r, j)) = 1
            /\ \A n \in CellTypings(r, j) :
                  IF j > Len(call.ior.columns) THEN typings[n][4] = "Any"
                  ELSE Len(GetColumn(Schemas[call.ior.table[1]], call.ior.columns[j])) > 0
                       => typings[n][4] =
                            BaseOf(GetColumn(Schemas[call.ior.table[1]],
                                             call.ior.columns[j])[1].type_.t)

\* the left-most SELECT branch of a statement
RECURSIVE LeftMost(_)
LeftMost(statement) ==
    IF statement.kind = "Union" THEN LeftMost(statement.union.left) ELSE statement

\* the errors that cite column position i (counted from 1) in any fragment
PositionErrors(i) ==
    {e \in Errors : \E f \in 1..Len(issues[e].frags) :
                        /\ Len(issues[e].frags[f].params) > 0
                        /\ issues[e].frags[f].params[1] = i - 1}

\* the fragment the one-sided column col at position i of a side calls for
OneSided(col, i, side) ==
    IF col.name # None
    THEN [msg |-> "Column {} ({}) only on this side", params |-> <<i - 1, col.name[1]>>,
          at |-> side]
    ELSE [msg |-> "Column {} only on this side", params |-> <<i - 1>>, at |-> side]

\* C21: in type_union, when the accumulated left side and the next branch
\* have different column counts, exactly one error is raised for each column
\* position that exists on only one side, its fragment pointing at the side
\* that has the column and including the column's name when it has one; the
\* column list type_union returns is as long as the left-most branch's.
C21_UnionColumnCounts ==
    /\ (TwoSelects /\ ret.ok) =>
          LET L == BranchColumns(call.union.left)
              R == BranchColumns(call.union.with[1])
          IN \A i \in 1..Max(Len(L), Len(R)) : (i > Len(L) \/ i > Len(R)) =>
                /\ Cardinality(PositionErrors(i)) = 1
                /\ \A e \in PositionErrors(i) :
                      issues[e].frags = IF i <= Len(L)
                                        THEN <<OneSided(L[i], i, <<"left", 0>>)>>
                                        ELSE <<OneSided(R[i], i, <<"right", 0>>)>>
    /\ (call.op = "type_union" /\ ret.ok /\ LeftMost(call.union.left).kind = "Select") =>
          Len(ret.columns) = Len(BranchColumns(LeftMost(call.union.left)))

\* SELECT 1 AS x UNION SELECT * FROM t: column 1 (name) only on the right
C21_Witness ==
    /\ TwoSelects
    /\ ret.ok
    /\ Len(BranchColumns(call.union.left)) = 1
    /\ Len(BranchColumns(call.union.with[1])) = 2
    /\ Cardinality(PositionErrors(2)) = 1
    /\ \E e \in PositionErrors(2) :
          issues[e].frags = <<[msg |-> "Column {} ({}) only on this side",
                               params |-> <<1, "name">>, at |-> <<"right", 0>>]>>
    /\ Len(ret.columns) = 1

\* an unnamed column on the left only
C21_WitnessLeftUnnamed ==
    /\ TwoSelects
    /\ ret.ok
    /\ Len(BranchColumns(call.union.with[1])) = 0
    /\ \E e \in PositionErrors(1) :
          issues[e].frags = <<[msg |-> "Column {} only on this side",
                               params |-> <<0>>, at |-> <<"left", 0>>]>>

(***************************************************************************)
(* Claims on the JSON and LEAST / GREATEST arms (SpecFunc).                *)
(***************************************************************************)
\* the type errors raised at the i-th argument
TypeErrorsAt(i) ==
    {e \in Errors : issues[e].msg = "Expected type {} got {}" /\ issues[e].at = ExprSpan(i)}

\* every argument of base String or Any passes, every other one raises
\* exactly one type error
StringArguments ==
    \A i \in 1..Len(call.args) :
        Cardinality(TypeErrorsAt(i)) =
            IF BaseOf(TypeOfExpr(call.args[i]).t) \in {"String", "Any"} THEN 0 ELSE 1

\* what JSON_UNQUOTE raises: one arity error unless it has one argument, one
\* type error for each argument that is not a String
UnquoteErrors ==
    /\ Cardinality(ArityErrors) = IF Len(call.args) = 1 THEN 0 ELSE 1
    /\ StringArguments

\* C22 as stated: JSON_UNQUOTE requires exactly one argument of base String
\* (any other count raises exactly one arity error, a non-String argument
\* exactly one type error) and its result is a non-nullable String.
C22_UnquoteNotNull ==
    (call.op = "type_function" /\ call.func = "JsonUnquote") =>
        /\ UnquoteErrors
        /\ BaseOf(ret.t.t) = "String"
        /\ ret.t.not_null = TRUE

\* C22 as amended: the arity and type errors are as stated, and the result
\* is a nullable String (not_null = FALSE) for every argument list.
C22_UnquoteNullable ==
    (call.op = "type_function" /\ call.func = "JsonUnquote") =>
        /\ UnquoteErrors
        /\ BaseOf(ret.t.t) = "String"
        /\ ret.t.not_null = FALSE

C22_Witness ==
    /\ call.op = "type_function"
    /\ call.func = "JsonUnquote"
    /\ call.args = <<Lit(Base("String"), TRUE)>>
    /\ issues = <<>>
    /\ ret = [ok |-> TRUE, t |-> FullTypeNew(Base("String"), FALSE)]

\* one Integer argument: one type error, no arity error
C22_WitnessTypeError ==
    /\ call.op = "type_function"
    /\ call.func = "JsonUnquote"
    /\ call.args = <<Lit(Base("Integer"), TRUE)>>
    /\ Cardinality(Errors) = 1
    /\ Cardinality(TypeErrorsAt(1)) = 1

\* the base the fold of LEAST/GREATEST has reached after the first i
\* arguments: that of the first argument whose base is not Any
RECURSIVE FoldedBase(_)
FoldedBase(i) ==
    IF i = 0 THEN "Any"
    ELSE IF FoldedBase(i - 1) # "Any" THEN FoldedBase(i - 1)
    ELSE BaseOf(TypeOfExpr(call.args[i]).t)

\* the arguments that do not unify with what the fold has reached
Mismatches ==
    {i \in 2..Len(call.args) :
        ~Unifiable(TypeOfExpr(call.args[i]).t, Base(FoldedBase(i - 1)))}

\* the errors LEAST/GREATEST raise for a mismatch
MismatchErrors == {e \in Errors : issues[e].msg = "None matching input types"}

\* each pairwise mismatch raises one error with two fragments, the first at
\* the first argument and the second at the argument that did not fit
MismatchesReported ==
    /\ Cardinality(MismatchErrors) = Cardinality(Mismatches)
    /\ \A e \in MismatchErrors :
          /\ Len(issues[e].frags) = 2
          /\ issues[e].frags[1].at = ExprSpan(1)
    /\ \A i \in Mismatches :
          Cardinality({e \in MismatchErrors : issues[e].frags[2].at = ExprSpan(i)}) = 1

\* C23 as stated: LEAST and GREATEST return the same fixed result for every
\* argument list, base Any and nullable (not_null = FALSE), whatever the
\* argument types and whether or not their pairwise unification succeeded;
\* each pairwise mismatch raises one error with two fragments.
C23_LeastNullableAny ==
    (call.op = "type_function" /\ call.func \in {"Least", "Greatest"}) =>
        /\ ret.t = FullTypeNew(Base("Any"), FALSE)
        /\ MismatchesReported

\* C23 as amended: the fixed result is base Any with not_null = TRUE.
C23_LeastNotNullAny ==
    (call.op = "type_function" /\ call.func \in {"Least", "Greatest"}) =>
        /\ ret.t = FullTypeNew(Base("Any"), TRUE)
        /\ MismatchesReported

\* LEAST(1, 'a', 'b'): two mismatches against Integer, the result still Any
C23_Witness ==
    /\ call.op = "type_function"
    /\ call.func = "Least"
    /\ call.args = <<Lit(Base("Integer"), TRUE), Lit(Base("String"), TRUE),
                     Lit(Base("String"), FALSE)>>
    /\ Cardinality(MismatchErrors) = 2
    /\ ret = [ok |-> TRUE, t |-> FullTypeNew(Base("Any"), TRUE)]

\* what both JSON_EXTRACT and JSON_VALUE do whatever the count: one type
\* error per argument that is not a String, and a nullable JSON result
JsonArgumentsAndResult ==
    /\ StringArguments
    /\ ret.t = FullTypeNew(JSON, FALSE)

\* C24 as stated: JSON_EXTRACT and JSON_VALUE both accept any argument count
\* of at least 2: n >= 2 arguments raise no arity error and n < 2 exactly
\* one; every argument must be of base String (one error per argument that
\* is not), and the result is always JSON with not_null = FALSE.
C24_BothAtLeastTwo ==
    (call.op = "type_function" /\ call.func \in {"JsonExtract", "JsonValue"}) =>
        /\ Cardinality(ArityErrors) = IF Len(call.args) >= 2 THEN 0 ELSE 1
        /\ JsonArgumentsAndResult

\* C24 as amended: JSON_EXTRACT accepts any count of at least 2, JSON_VALUE
\* exactly 2; every other count raises exactly one arity error.
C24_ValueExactlyTwo ==
    (call.op = "type_function" /\ call.func \in {"JsonExtract", "JsonValue"}) =>
        /\ Cardinality(ArityErrors) =
              IF call.func = "JsonExtract"
              THEN IF Len(call.args) >= 2 THEN 0 ELSE 1
              ELSE IF Len(call.args) = 2 THEN 0 ELSE 1
        /\ JsonArgumentsAndResult

\* JSON_VALUE with three String arguments: one arity error
C24_Witness ==
    /\ call.op = "type_function"
    /\ call.func = "JsonValue"
    /\ call.args = <<Lit(Base("String"), TRUE), Lit(Base("String"), TRUE),
                     Lit(Base("String"), TRUE)>>
    /\ Cardinality(Errors) = 1
    /\ Cardinality(ArityErrors) = 1
    /\ ret = [ok |-> TRUE, t |-> FullTypeNew(JSON, FALSE)]

\* JSON_EXTRACT with three String arguments: no error
C24_WitnessExtract ==
    /\ call.op = "type_function"
    /\ call.func = "JsonExtract"
    /\ Len(call.args) = 3
    /\ issues = <<>>
    /\ ret = [ok |-> TRUE, t |-> FullTypeNew(JSON, FALSE)]

====
